---- MODULE Spec2Model ----
(***************************************************************************)
(* Content relay engine of devgagan/core/get_func.py.                      *)
(*                                                                         *)
(* One transfer (get_msg -> SmartTelegramBot.handle_message_download) is   *)
(* a sequential coroutine; pc is its position.  Every capability call      *)
(* (send_message, send_file, get_messages, download_media, delete, ...)    *)
(* is a step whose outcome is drawn from the outcomes the call can have:   *)
(* it returns ("ok"), raises an RPCError ("rpc"; ChatAdminRequired and     *)
(* FloodWait are RPCErrors) or raises some other exception ("other").  A   *)
(* call inside a try whose except clause only passes returns or fails      *)
(* ("fail"), whatever it raised.  hist records every capability call with  *)
(* its outcome, disk the local files, live the interstitial messages that  *)
(* exist in a chat.                                                        *)
(*                                                                         *)
(* Byte counts are scaled: one unit is a tenth of a GiB, so SIZE_LIMIT     *)
(* (2 * 1024**3) is 20 and PART_SIZE (int(1.9 * 1024**3)) is 19.  The code *)
(* only compares sizes with SIZE_LIMIT and reads PART_SIZE bytes at a      *)
(* time, so the scale keeps every case of the code.                        *)
(*                                                                         *)
(* Line 30 of get_func.py (from devgagan import pro if ... else None) is   *)
(* not valid Python; the model reads the module as it runs once that line  *)
(* is the plain import that SmartTelegramBot.__init__ repeats at line 347: *)
(* pro_client is the configured privileged client or None.                 *)
(***************************************************************************)
EXTENDS Integers, Sequences, FiniteSets, TLC

SIZE_LIMIT == 20
PART_SIZE == 19

\* Largest file handed to split_large_file when it is exercised on its own.
MaxFileSize == 40

Sender == "u1"
Users == {Sender}
LOG_GROUP == "LOG_GROUP"
SourceChat == "src"
TargetChat == "chat77"
None == "None"          \* None, for a local that names a message
NoPath == <<>>          \* None, for a local that names a file
NoSize == <<>>          \* None, for a size; a size s is <<s>>

VARIABLES
    pc,              \* position of the transfer coroutine
    link,            \* the inbound reference: [kind, malformed]
    protectedDB,     \* chats the operator locked (collection docs with channel_id)
    pro_client,      \* SmartTelegramBot.pro_client is configured
    premium,         \* the sender is premium/owner (chk_user would return 0)
    user_chat_ids,   \* SmartTelegramBot.user_chat_ids: user -> chat id (an int), None when absent
    msg,             \* the fetched message (or story)
    media_type,      \* third component of get_media_info(msg)
    file_size,       \* second component of get_media_info(msg)
    file_path,       \* local variable file_path of the running handler
    edit_msg,        \* local variable edit_msg: the notice it names, or None
    progress_message,\* local of upload_with_telethon
    ctx,             \* which handler called the shared upload routines
    exc,             \* class of the exception being propagated
    disk,            \* local files: name -> content
    live,            \* interstitial messages that exist
    hist,            \* capability calls made so far, with their outcome
    part_number,     \* split_large_file: local part_number
    offset,          \* split_large_file: read position of f
    part_file,       \* split_large_file: local part_file, or None
    parts,           \* split_large_file: contents of the parts delivered to the target
    start_msg,       \* split_large_file: local start_msg exists
    strategy,        \* the upload branch the transfer took, None before it
    cleanup,         \* the finally block of handle_message_download has run
    user_sessions,   \* SmartTelegramBot.user_sessions: user -> session type, None when absent
    pending_photos,  \* SmartTelegramBot.pending_photos
    user_rename_prefs,  \* SmartTelegramBot.user_rename_prefs: user -> <<tag>>, <<>> when absent
    user_caption_prefs, \* SmartTelegramBot.user_caption_prefs: user -> <<caption>>, <<>> when absent
    collection,      \* DatabaseManager.collection: user -> key -> <<value>>, <<>> when the field is absent
    cache,           \* DatabaseManager._cache: user -> key -> <<value>>, <<>> when the key is absent
    event,           \* the NewMessage update being dispatched to the handlers
    reply,           \* what the last handler answered, and whether the send went through
    file_names,      \* the names process_filename was given and returned, in order
    captions,        \* the captions process_user_caption was given and returned: <<original, <<result>>>>, <<>> for None
    tasks            \* the coroutines running at the same time: task -> its position and locals, <<>> when there are none

vars == <<pc, link, protectedDB, pro_client, premium, user_chat_ids, msg,
          media_type, file_size, file_path, edit_msg, progress_message, ctx,
          exc, disk, live, hist, part_number, offset, part_file, parts,
          start_msg, strategy, cleanup, user_sessions, pending_photos,
          user_rename_prefs, user_caption_prefs, collection, cache, event,
          reply, file_names, captions, tasks>>

\* The settings state, which a transfer does not write.
settings == <<user_sessions, pending_photos, user_rename_prefs,
              user_caption_prefs, collection, cache, event, reply, file_names,
              captions, tasks>>

\* The settings state apart from the tasks, with user_chat_ids.
settings_but_tasks == <<user_chat_ids, user_sessions, pending_photos,
                        user_rename_prefs, user_caption_prefs, collection,
                        cache, event, reply, file_names, captions>>

env == <<link, protectedDB, pro_client, premium, user_chat_ids, settings>>
\* The state of a transfer apart from the local files, which the settings
\* handlers do not write.
transfer == <<pc, link, protectedDB, pro_client, premium, msg, media_type,
              file_size, file_path, edit_msg, progress_message, ctx, exc, live,
              hist, part_number, offset, part_file, parts, start_msg, strategy,
              cleanup>>
xfer == <<env, strategy>>
split == <<part_number, offset, part_file, parts, start_msg>>

----------------------------------------------------------------------------
(* Values *)

Outcome == {"ok", "rpc", "other"}      \* a call that is not guarded
Swallowed == {"ok", "fail"}            \* a call inside try/except: pass

LinkKinds == {"c", "b", "story", "public"}

Attr == {"service", "empty", "web_page", "message", "media", "document",
         "video", "photo", "audio", "voice", "sticker", "video_note"}

NoMsg == [exists |-> FALSE, attrs |-> {}, size |-> NoSize]

Msg(attrs, size) == [exists |-> TRUE, attrs |-> attrs, size |-> size]

\* Sizes a media object reports: absent, small, the limit, above the limit.
MediaSizes == {NoSize, <<1>>, <<SIZE_LIMIT>>, <<SIZE_LIMIT + 1>>}

\* Messages get_messages can return.  The code reads a message by getattr
\* only, so a message is the set of attributes that are truthy on it.
MsgShapes ==
    {NoMsg, Msg({"service"}, NoSize), Msg({"empty"}, NoSize),
     Msg({"message"}, NoSize), Msg({"web_page", "message", "media"}, NoSize),
     Msg({"media"}, NoSize), Msg({"media", "photo"}, NoSize),
     Msg({"media", "sticker"}, NoSize), Msg({"media", "video_note"}, NoSize)}
    \cup {Msg({"media", "document"}, s) : s \in MediaSizes}
    \cup {Msg({"media", "document", "message"}, s) : s \in {<<1>>, <<SIZE_LIMIT + 1>>}}
    \cup {Msg({"media", "video"}, s) : s \in {<<1>>, <<SIZE_LIMIT + 1>>}}
    \cup {Msg({"media", "audio"}, <<1>>), Msg({"media", "voice"}, <<1>>)}

Has(m, a) == m.exists /\ a \in m.attrs

\* File content of s bytes; the bytes are told apart by their position.
Bytes(s) == [i \in 1..s |-> i]

\* The size of the file download_media writes for a message.
ActualSize(m) == IF m.size = NoSize THEN 1 ELSE m.size[1]

\* File names: <<name, -1>> is a whole file, <<name, k>> its part k.
DlName == <<"downloaded", -1>>
RnName == <<"renamed", -1>>
StoryName == <<"story", -1>>

Ev(op, to, what, res) == [op |-> op, to |-> to, what |-> what, res |-> res]

\* file_path and os.path.exists(file_path)
exists(p) == p # NoPath /\ p \in DOMAIN disk

\* truthiness of a size: neither None nor 0
Truthy(s) == s # NoSize /\ s[1] # 0

NoFiles == [n \in {} |-> <<>>]
Put(d, name, content) == [n \in DOMAIN d \cup {name} |-> IF n = name THEN content ELSE d[n]]
\* An os.remove that removes nothing.
Del_KeepsFile(d, name) == d
Del(d, name) == [n \in DOMAIN d \ {name} |-> d[n]]

----------------------------------------------------------------------------
(* DatabaseManager *)

\* get_protected_channels: the set of channel_id values, or set() when the
\* read raises.  The stored ids are ints.
get_protected_channels(dbok) ==
    IF dbok THEN {<<"int", c>> : c \in protectedDB} ELSE {}

----------------------------------------------------------------------------
(* MediaProcessor.get_media_info *)

get_media_info(m) ==
    IF Has(m, "document") THEN <<m.size, "document">>
    ELSE IF Has(m, "video") THEN <<m.size, "video">>
    ELSE IF Has(m, "photo") THEN <<<<1>>, "photo">>
    ELSE IF Has(m, "audio") THEN <<m.size, "audio">>
    ELSE IF Has(m, "voice") THEN <<m.size, "voice">>
    ELSE <<<<1>>, "document">>


----------------------------------------------------------------------------
(* Exceptions: where a raise inside the shared upload routines lands, and  *)
(* where they return to.                                                   *)

\* The try of the caller that encloses the call of a shared routine.
CallerHandler(c) ==
    CASE c = "private" -> "hmd_except"
      [] c = "public" -> "pub_except"
      [] OTHER -> "raised"

\* The statement after the call; each call is followed by return or by the
\* end of the try.
CallerReturn(c) ==
    CASE c = "private" -> "hmd_finally"
      [] c = "public" -> "pub_finally"
      [] OTHER -> "returned"

Log(evs) == hist' = hist \o evs

----------------------------------------------------------------------------
(* SmartTelegramBot.parse_target_chat and the callers' lookup              *)

\* The lookup with another chat as its default.
target_chat_str_OtherDefault(u) ==
    IF user_chat_ids[u] # None THEN <<"int", user_chat_ids[u]>> ELSE <<"str", TargetChat>>

\* self.user_chat_ids.get(user, str(user)): the stored int, or the string.
target_chat_str(u) ==
    IF user_chat_ids[u] # None THEN <<"int", user_chat_ids[u]>> ELSE <<"str", u>>

\* '/' in target raises TypeError on an int; a string without '/' gives
\* (int(target), None).
parse_target_chat(t) == IF t[1] = "int" THEN "TypeError" ELSE t[2]

\* The topic parse_target_chat returns with the chat id: None for a string
\* without '/'; str(chat id) has none.
parse_target_topic(t) == IF t[1] = "int" THEN "TypeError" ELSE None

----------------------------------------------------------------------------
(* func.chk_user and its use                                               *)

\* get_func.py imports progress_bar, video_metadata, screenshot from
\* devgagan.core.func: chk_user is not among its globals.
chk_user_in_globals == FALSE

\* 0 for premium/owner, 1 for free users, 1 when premium_users() raises.
chk_user(dbok) == IF dbok /\ premium THEN 0 ELSE 1

free_check(dbok) == IF chk_user_in_globals THEN chk_user(dbok) ELSE 0

----------------------------------------------------------------------------
(* handle_message_download, private links                                  *)

\* The chat id _parse_message_link computes: an int for t.me/c/, the path
\* component (a str) for t.me/b/.
ParsedChatId(l) == IF l.kind = "c" THEN <<"int", SourceChat>> ELSE <<"str", SourceChat>>

\* Lines 480-485 with _parse_message_link up to the call of the story or
\* public handler.
hmd_parse ==
    /\ pc = "start"
    /\ \E dbok \in BOOLEAN, o \in Swallowed :
        LET protected_channels == get_protected_channels(dbok)
            read == <<Ev("find", "db", "channel_id", IF dbok THEN "ok" ELSE "fail")>>
        IN
        IF link.kind \in {"c", "b"} THEN
            IF link.malformed THEN
                /\ Log(read)
                /\ pc' = "hmd_finally"
            ELSE IF ParsedChatId(link) \in protected_channels THEN
                /\ Log(read \o <<Ev("send_message", Sender, "protected", o)>>)
                /\ pc' = "hmd_finally"
            ELSE
                /\ Log(read)
                /\ pc' = "hmd_target"
        ELSE IF link.kind = "story" THEN
            /\ Log(read \o <<Ev("send_message", Sender, "story_detected", o)>>)
            /\ pc' = IF link.malformed THEN "hmd_finally" ELSE "story_start"
        ELSE
            /\ Log(read \o <<Ev("send_message", Sender, "public_detected", o)>>)
            /\ pc' = IF link.malformed THEN "hmd_finally" ELSE "pub_target"
    /\ UNCHANGED <<xfer, split, msg, media_type, file_size, file_path, edit_msg,
                   progress_message, ctx, exc, disk, live, cleanup>>

\* Lines 487-488.
hmd_target ==
    /\ pc = "hmd_target"
    /\ IF parse_target_chat(target_chat_str(Sender)) = "TypeError"
       THEN pc' = "hmd_except" /\ exc' = "other"
       ELSE pc' = "hmd_fetch" /\ UNCHANGED exc
    /\ UNCHANGED <<xfer, split, msg, media_type, file_size, file_path, edit_msg,
                   progress_message, ctx, disk, live, hist, cleanup>>

\* The target of the running private transfer (line 488).
target_chat_id == parse_target_chat(target_chat_str(Sender))

\* Lines 491-498.
hmd_fetch ==
    /\ pc = "hmd_fetch"
    /\ \E o \in Outcome, m \in MsgShapes, d \in Swallowed :
        IF o # "ok" THEN
            /\ Log(<<Ev("get_messages", SourceChat, "msg", o)>>)
            /\ pc' = "hmd_except" /\ exc' = o
            /\ UNCHANGED <<msg, live>>
        ELSE IF ~m.exists \/ Has(m, "service") \/ Has(m, "empty") THEN
            /\ Log(<<Ev("get_messages", SourceChat, "msg", o),
                     Ev("delete", Sender, "pending", d)>>)
            /\ live' = IF d = "ok" THEN live \ {"pending"} ELSE live
            /\ msg' = m
            /\ pc' = "hmd_finally" /\ UNCHANGED exc
        ELSE
            /\ Log(<<Ev("get_messages", SourceChat, "msg", o)>>)
            /\ msg' = m
            /\ pc' = "hmd_special" /\ UNCHANGED <<exc, live>>
    /\ UNCHANGED <<xfer, split, media_type, file_size, file_path, edit_msg,
                   progress_message, ctx, disk, cleanup>>

\* Lines 501-507 with _handle_special_messages (638-665).
hmd_special ==
    /\ pc = "hmd_special"
    /\ \E o \in Outcome, l \in Swallowed, d \in Swallowed :
        IF Has(msg, "web_page") \/ Has(msg, "message") THEN
            IF o = "ok" THEN
                /\ Log(<<Ev("send_message", target_chat_id, "text", o),
                         Ev("send_message", LOG_GROUP, "text", l),
                         Ev("delete", Sender, "pending", d)>>)
                /\ live' = IF d = "ok" THEN live \ {"pending"} ELSE live
                /\ pc' = "hmd_finally"
                /\ UNCHANGED <<exc, media_type, file_size>>
            ELSE
                /\ Log(<<Ev("send_message", target_chat_id, "text", o)>>)
                /\ pc' = "hmd_except" /\ exc' = o
                /\ UNCHANGED <<live, media_type, file_size>>
        ELSE IF ~Has(msg, "media") THEN
            /\ pc' = "hmd_finally"
            /\ UNCHANGED <<hist, live, exc, media_type, file_size>>
        ELSE
            /\ file_size' = get_media_info(msg)[1]
            /\ media_type' = get_media_info(msg)[2]
            /\ pc' = "hmd_direct_media"
            /\ UNCHANGED <<hist, live, exc>>
    /\ UNCHANGED <<xfer, split, msg, file_path, edit_msg, progress_message, ctx,
                   disk, cleanup>>

\* Lines 510-511 with _handle_direct_media (667-699): the delete goes to
\* msg.peer_id, the source chat; any raise makes it return False.
hmd_direct_media ==
    /\ pc = "hmd_direct_media"
    /\ \E o \in Outcome, l \in Swallowed, d \in Outcome :
        IF media_type \in {"sticker", "voice", "video_note"} /\ Has(msg, media_type) THEN
            IF o # "ok" THEN
                /\ Log(<<Ev("send_file", target_chat_id, "media", o)>>)
                /\ pc' = "hmd_downloading"
            ELSE
                /\ Log(<<Ev("send_file", target_chat_id, "media", o),
                         Ev("send_file", LOG_GROUP, "media", l),
                         Ev("delete", SourceChat, "edit_id", d)>>)
                /\ pc' = IF d = "ok" THEN "hmd_finally" ELSE "hmd_downloading"
        ELSE
            /\ pc' = "hmd_downloading"
            /\ UNCHANGED hist
    /\ UNCHANGED <<xfer, split, msg, media_type, file_size, file_path, edit_msg,
                   progress_message, ctx, exc, disk, live, cleanup>>

\* Lines 515-518.
hmd_downloading ==
    /\ pc = "hmd_downloading"
    /\ \E o \in Swallowed :
        /\ Log(<<Ev("send_message", Sender, "downloading", o)>>)
        /\ edit_msg' = IF o = "ok" THEN "downloading" ELSE None
        /\ live' = IF o = "ok" THEN live \cup {"downloading"} ELSE live
    /\ pc' = "hmd_download"
    /\ UNCHANGED <<xfer, split, msg, media_type, file_size, file_path,
                   progress_message, ctx, exc, disk, cleanup>>

\* Line 520.  download_media streams into the file it has opened under the
\* given name: when it raises the file may or may not be on disk, and
\* file_path is not assigned.
hmd_download ==
    /\ pc = "hmd_download"
    /\ \E o \in Outcome, partial \in BOOLEAN :
        /\ Log(<<Ev("download_media", SourceChat, "msg", o)>>)
        /\ IF o = "ok" THEN
               /\ disk' = Put(disk, DlName, Bytes(ActualSize(msg)))
               /\ file_path' = DlName
               /\ pc' = "hmd_rename" /\ UNCHANGED exc
           ELSE
               /\ disk' = IF partial THEN Put(disk, DlName, <<>>) ELSE disk
               /\ pc' = "hmd_except" /\ exc' = o
               /\ UNCHANGED file_path
    /\ UNCHANGED <<xfer, split, msg, media_type, file_size, edit_msg,
                   progress_message, ctx, live, cleanup>>

\* Lines 523-524 with FileOperations.process_filename (237-258): the
\* caption is computed without any capability call; os.rename moves the
\* file to its new name or raises and leaves it.
hmd_rename ==
    /\ pc = "hmd_rename"
    /\ \E o \in {"ok", "other"} :
        IF o = "ok" THEN
            /\ disk' = Put(Del(disk, file_path), RnName, disk[file_path])
            /\ file_path' = RnName
            /\ pc' = "hmd_select" /\ UNCHANGED exc
        ELSE
            /\ pc' = "hmd_except" /\ exc' = o
            /\ UNCHANGED <<disk, file_path>>
    /\ UNCHANGED <<xfer, split, msg, media_type, file_size, edit_msg,
                   progress_message, ctx, live, hist, cleanup>>

\* The choice without its test of the privileged client.
Strategy_NoClientTest(size, dbok) ==
    IF Truthy(size) /\ size[1] > SIZE_LIMIT
    THEN IF free_check(dbok) = 1 THEN "split" ELSE "large"
    ELSE "direct"

\* The strategy lines 542-565 (and 797-809) choose for a file that is not
\* a photo.
Strategy(size, dbok) ==
    IF Truthy(size) /\ size[1] > SIZE_LIMIT
    THEN IF free_check(dbok) = 1 \/ ~pro_client THEN "split" ELSE "large"
    ELSE "direct"

\* The choice without the photo special case of line 527.
hmd_select_NoPhotoCase ==
    /\ pc = "hmd_select"
    /\ \E dbok \in BOOLEAN, d \in Swallowed :
        IF Strategy(file_size, dbok) = "split" THEN
            /\ strategy' = "split"
            /\ IF edit_msg # None
               THEN /\ Log(<<Ev("delete", Sender, edit_msg, d)>>)
                    /\ live' = IF d = "ok" THEN live \ {edit_msg} ELSE live
               ELSE UNCHANGED <<hist, live>>
            /\ pc' = "split_start"
        ELSE
            /\ strategy' = Strategy(file_size, dbok)
            /\ pc' = IF Strategy(file_size, dbok) = "large" THEN "large_start" ELSE "uwt_start"
            /\ UNCHANGED <<hist, live>>
    /\ ctx' = "private"
    /\ UNCHANGED <<env, split, msg, media_type, file_size, file_path, edit_msg,
                   progress_message, exc, disk, cleanup>>

\* Lines 527 and 541-565: the branch taken; the split branch deletes
\* edit_msg first (552-556).
hmd_select ==
    /\ pc = "hmd_select"
    /\ \E dbok \in BOOLEAN, d \in Swallowed :
        IF media_type = "photo" THEN
            /\ strategy' = "photo"
            /\ pc' = "hmd_photo"
            /\ UNCHANGED <<hist, live>>
        ELSE IF Strategy(file_size, dbok) = "split" THEN
            /\ strategy' = "split"
            /\ IF edit_msg # None
               THEN /\ Log(<<Ev("delete", Sender, edit_msg, d)>>)
                    /\ live' = IF d = "ok" THEN live \ {edit_msg} ELSE live
               ELSE UNCHANGED <<hist, live>>
            /\ pc' = "split_start"
        ELSE
            /\ strategy' = Strategy(file_size, dbok)
            /\ pc' = IF Strategy(file_size, dbok) = "large" THEN "large_start" ELSE "uwt_start"
            /\ UNCHANGED <<hist, live>>
    /\ ctx' = "private"
    /\ UNCHANGED <<env, split, msg, media_type, file_size, file_path, edit_msg,
                   progress_message, exc, disk, cleanup>>

\* Lines 527-538.
hmd_photo ==
    /\ pc = "hmd_photo"
    /\ \E o \in Outcome, l \in Swallowed, d \in Swallowed :
        IF o = "ok" THEN
            /\ Log(<<Ev("send_file", target_chat_id, "photo", o),
                     Ev("send_file", LOG_GROUP, "photo", l)>>
                   \o IF edit_msg # None
                      THEN <<Ev("delete", Sender, edit_msg, d)>> ELSE <<>>)
            /\ live' = IF edit_msg # None /\ d = "ok" THEN live \ {edit_msg} ELSE live
            /\ pc' = "hmd_finally" /\ UNCHANGED exc
        ELSE
            /\ Log(<<Ev("send_file", target_chat_id, "photo", o)>>)
            /\ pc' = "hmd_except" /\ exc' = o
            /\ UNCHANGED live
    /\ UNCHANGED <<xfer, split, msg, media_type, file_size, file_path, edit_msg,
                   progress_message, ctx, disk, cleanup>>

\* The handler without its except Exception clause.
hmd_except_RpcOnly ==
    /\ pc = "hmd_except"
    /\ \E o \in Swallowed :
        IF exc = "rpc"
        THEN Log(<<Ev("send_message", Sender, "access_denied", o)>>) /\ exc' = "none"
        ELSE UNCHANGED <<hist, exc>>
    /\ pc' = "hmd_finally"
    /\ UNCHANGED <<xfer, split, msg, media_type, file_size, file_path, edit_msg,
                   progress_message, ctx, disk, live, cleanup>>

\* Lines 567-577: the two except clauses.
hmd_except ==
    /\ pc = "hmd_except"
    /\ \E o \in Swallowed :
        IF exc = "rpc"
        THEN Log(<<Ev("send_message", Sender, "access_denied", o)>>)
        ELSE Log(<<Ev("send_message", LOG_GROUP, "error", o)>>)
    /\ exc' = "none"
    /\ pc' = "hmd_finally"
    /\ UNCHANGED <<xfer, split, msg, media_type, file_size, file_path, edit_msg,
                   progress_message, ctx, disk, live, cleanup>>

\* The finally clause with an os.remove that never returns.
hmd_finally_Hangs ==
    /\ pc = "hmd_finally"
    /\ cleanup' = TRUE
    /\ UNCHANGED <<xfer, split, msg, media_type, file_size, file_path, edit_msg,
                   progress_message, ctx, exc, live, hist, pc, disk>>

\* Lines 578-589: the finally clause (thumb_path is never assigned; a
\* failing os.remove is not modelled).  Then get_msg (1026-1027) returns,
\* or the exception no clause took leaves it.
hmd_finally ==
    /\ pc = "hmd_finally"
    /\ disk' = IF exists(file_path) THEN Del(disk, file_path) ELSE disk
    /\ cleanup' = TRUE
    /\ pc' = IF exc = "none" THEN "done" ELSE "raised"
    /\ UNCHANGED <<xfer, split, msg, media_type, file_size, file_path, edit_msg,
                   progress_message, ctx, exc, live, hist>>

----------------------------------------------------------------------------
(* SmartTelegramBot.upload_with_telethon (378-430)                         *)

\* The target the caller passed (private: line 488, public: line 724); both
\* callers computed it from the sender's entry.
upload_target == target_chat_id

\* Lines 383-390.
uwt_start ==
    /\ pc = "uwt_start"
    /\ \E d \in Swallowed, o \in Outcome :
        /\ Log((IF edit_msg # None
                THEN <<Ev("delete", Sender, edit_msg, d)>> ELSE <<>>)
               \o <<Ev("send_message", Sender, "uploading", o)>>)
        /\ live' = (IF edit_msg # None /\ d = "ok" THEN live \ {edit_msg} ELSE live)
                   \cup (IF o = "ok" THEN {"uploading"} ELSE {})
        /\ IF o = "ok"
           THEN progress_message' = "uploading" /\ pc' = "uwt_send" /\ UNCHANGED exc
           ELSE UNCHANGED progress_message /\ pc' = "uwt_except" /\ exc' = o
    /\ UNCHANGED <<xfer, split, msg, media_type, file_size, file_path, edit_msg,
                   ctx, disk, cleanup>>

\* Lines 391-422: fast_upload falls back to the path, video_metadata to no
\* attributes; the send to the target is not guarded.
uwt_send ==
    /\ pc = "uwt_send"
    /\ \E f \in Swallowed, o \in Outcome, l \in Swallowed, d \in Swallowed :
        IF o = "ok" THEN
            /\ Log(<<Ev("fast_upload", Sender, "file", f),
                     Ev("send_file", upload_target, "file", o),
                     Ev("send_file", LOG_GROUP, "file", l),
                     Ev("delete", Sender, "uploading", d)>>)
            /\ live' = IF d = "ok" THEN live \ {"uploading"} ELSE live
            /\ pc' = CallerReturn(ctx) /\ UNCHANGED exc
        ELSE
            /\ Log(<<Ev("fast_upload", Sender, "file", f),
                     Ev("send_file", upload_target, "file", o)>>)
            /\ pc' = "uwt_except" /\ exc' = o
            /\ UNCHANGED live
    /\ UNCHANGED <<xfer, split, msg, media_type, file_size, file_path, edit_msg,
                   progress_message, ctx, disk, cleanup>>

\* Lines 424-430: log, then raise.
uwt_except ==
    /\ pc = "uwt_except"
    /\ \E l \in Swallowed :
        Log(<<Ev("send_message", LOG_GROUP, "upload_failed", l)>>)
    /\ pc' = CallerHandler(ctx)
    /\ UNCHANGED <<xfer, split, msg, media_type, file_size, file_path, edit_msg,
                   progress_message, ctx, exc, disk, live, cleanup>>

----------------------------------------------------------------------------
(* SmartTelegramBot.handle_large_file_upload (432-468)                     *)

\* Lines 436-445.
large_start ==
    /\ pc = "large_start"
    /\ \E o \in Outcome :
        IF ~pro_client THEN
            /\ Log(<<Ev("send_message", Sender, "pro_unavailable", o)>>)
            /\ pc' = CallerReturn(ctx) /\ UNCHANGED exc
        ELSE
            /\ Log(<<Ev("send_message", Sender, "4gb_starting", o)>>)
            /\ IF o = "ok"
               THEN pc' = "large_send" /\ UNCHANGED exc
               ELSE pc' = "large_end" /\ exc' = o
    /\ UNCHANGED <<xfer, split, msg, media_type, file_size, file_path, edit_msg,
                   progress_message, ctx, disk, live, cleanup>>

\* Lines 447-457: video_metadata is not guarded here; the log group is sent
\* first, the target (looked up again from user_chat_ids) second.
large_send ==
    /\ pc = "large_send"
    /\ \E meta \in {"ok", "other"}, l \in Outcome, o \in Outcome :
        IF meta # "ok" THEN
            /\ pc' = "large_end" /\ exc' = meta
            /\ UNCHANGED hist
        ELSE IF l # "ok" THEN
            /\ Log(<<Ev("pro_send_file", LOG_GROUP, "file", l)>>)
            /\ pc' = "large_end" /\ exc' = l
        ELSE IF parse_target_chat(target_chat_str(Sender)) = "TypeError" THEN
            /\ Log(<<Ev("pro_send_file", LOG_GROUP, "file", l)>>)
            /\ pc' = "large_end" /\ exc' = "other"
        ELSE
            /\ Log(<<Ev("pro_send_file", LOG_GROUP, "file", l),
                     Ev("pro_send_file", parse_target_chat(target_chat_str(Sender)), "file", o)>>)
            /\ pc' = "large_end"
            /\ exc' = IF o = "ok" THEN "none" ELSE o
    /\ UNCHANGED <<xfer, split, msg, media_type, file_size, file_path, edit_msg,
                   progress_message, ctx, disk, live, cleanup>>

\* Lines 458-468: the except clause when something was raised, then the
\* finally clause; the routine returns normally.
large_end ==
    /\ pc = "large_end"
    /\ \E l \in Swallowed, d \in Swallowed :
        /\ Log((IF exc # "none"
                THEN <<Ev("send_message", LOG_GROUP, "4gb_error", l)>> ELSE <<>>)
               \o (IF edit_msg # None
                   THEN <<Ev("delete", Sender, edit_msg, d)>> ELSE <<>>))
        /\ live' = IF edit_msg # None /\ d = "ok" THEN live \ {edit_msg} ELSE live
    /\ exc' = "none"
    /\ pc' = CallerReturn(ctx)
    /\ UNCHANGED <<xfer, split, msg, media_type, file_size, file_path, edit_msg,
                   progress_message, ctx, disk, cleanup>>

----------------------------------------------------------------------------
(* FileOperations.split_large_file (260-303)                               *)

Min(a, b) == IF a < b THEN a ELSE b

\* A read of one byte too many.
ReadChunk_OneMore(content, off) ==
    SubSeq(content, off + 1, Min(off + PART_SIZE + 1, Len(content)))

\* f.read(PART_SIZE) at position off of a file with the given content.
ReadChunk(content, off) == SubSeq(content, off + 1, Min(off + PART_SIZE, Len(content)))

\* f"{base_path.stem}.part{str(part_number).zfill(3)}{base_path.suffix}"
PartName(path, k) == <<path[1], k>>

\* Lines 261-269: both sends are outside the try.
split_start ==
    /\ pc = "split_start"
    /\ \E o \in Outcome :
        IF ~exists(file_path) THEN
            /\ Log(<<Ev("send_message", Sender, "file_not_found", o)>>)
            /\ IF o = "ok"
               THEN pc' = CallerReturn(ctx) /\ UNCHANGED exc
               ELSE pc' = CallerHandler(ctx) /\ exc' = o
            /\ UNCHANGED <<live, split>>
        ELSE
            /\ Log(<<Ev("send_message", Sender, "split_start", o)>>)
            /\ IF o = "ok"
               THEN /\ live' = live \cup {"split_start"}
                    /\ start_msg' = TRUE
                    /\ part_number' = 0
                    /\ offset' = 0
                    /\ pc' = "split_read"
                    /\ UNCHANGED <<exc, part_file, parts>>
               ELSE /\ pc' = CallerHandler(ctx) /\ exc' = o
                    /\ UNCHANGED <<live, split>>
    /\ UNCHANGED <<xfer, msg, media_type, file_size, file_path, edit_msg,
                   progress_message, ctx, disk, cleanup>>

\* Lines 274-279: read a chunk; stop on an empty one; else write it to the
\* part file.  A failed write leaves whatever open(part_file, "wb") and the
\* write put on disk.
split_read ==
    /\ pc = "split_read"
    /\ \E r \in {"ok", "other"}, w \in {"ok", "other"}, partial \in BOOLEAN :
        LET chunk == ReadChunk(disk[file_path], offset)
            name == PartName(file_path, part_number)
        IN
        IF r # "ok" THEN
            /\ pc' = "split_finally" /\ exc' = r
            /\ UNCHANGED <<disk, offset, part_file>>
        ELSE IF chunk = <<>> THEN
            /\ pc' = "split_finally"
            /\ UNCHANGED <<exc, disk, offset, part_file>>
        ELSE IF w = "ok" THEN
            /\ disk' = Put(disk, name, chunk)
            /\ offset' = offset + Len(chunk)
            /\ part_file' = name
            /\ pc' = "split_notice" /\ UNCHANGED exc
        ELSE
            /\ disk' = IF partial THEN Put(disk, name, <<>>) ELSE disk
            /\ offset' = offset + Len(chunk)
            /\ part_file' = name
            /\ pc' = "split_finally" /\ exc' = w
    /\ UNCHANGED <<xfer, msg, media_type, file_size, file_path, edit_msg,
                   progress_message, ctx, live, hist, part_number, parts,
                   start_msg, cleanup>>

\* Lines 281-282: the notice is sent before the inner try.
split_notice ==
    /\ pc = "split_notice"
    /\ \E o \in Outcome :
        /\ Log(<<Ev("send_message", upload_target, "uploading_part", o)>>)
        /\ IF o = "ok"
           THEN live' = live \cup {"uploading_part"} /\ pc' = "split_upload" /\ UNCHANGED exc
           ELSE UNCHANGED live /\ pc' = "split_finally" /\ exc' = o
    /\ UNCHANGED <<xfer, split, msg, media_type, file_size, file_path, edit_msg,
                   progress_message, ctx, disk, cleanup>>

\* Lines 283-299: upload the part, mirror it, delete the notice; the inner
\* finally removes the part file; then part_number += 1.
split_upload ==
    /\ pc = "split_upload"
    /\ \E o \in Outcome, l \in Swallowed, d \in Outcome :
        /\ IF o # "ok" THEN
               /\ Log(<<Ev("send_file", upload_target, part_file, o)>>)
               /\ pc' = "split_finally" /\ exc' = o
               /\ UNCHANGED <<live, parts, part_number>>
           ELSE
               /\ Log(<<Ev("send_file", upload_target, part_file, o),
                        Ev("send_file", LOG_GROUP, part_file, l),
                        Ev("delete", upload_target, "uploading_part", d)>>)
               /\ parts' = Append(parts, disk[part_file])
               /\ IF d = "ok"
                  THEN /\ live' = live \ {"uploading_part"}
                       /\ part_number' = part_number + 1
                       /\ pc' = "split_read" /\ UNCHANGED exc
                  ELSE /\ pc' = "split_finally" /\ exc' = d
                       /\ UNCHANGED <<live, part_number>>
        /\ disk' = IF exists(part_file) THEN Del(disk, part_file) ELSE disk
    /\ UNCHANGED <<xfer, msg, media_type, file_size, file_path, edit_msg,
                   progress_message, ctx, offset, part_file, start_msg, cleanup>>

\* Lines 300-303: the outer finally.  When the delete raises, the file is
\* not removed here and the new exception is the one that propagates.
split_finally ==
    /\ pc = "split_finally"
    /\ \E d \in Outcome :
        /\ Log(<<Ev("delete", Sender, "split_start", d)>>)
        /\ IF d = "ok" THEN
               /\ live' = live \ {"split_start"}
               /\ disk' = IF exists(file_path) THEN Del(disk, file_path) ELSE disk
               /\ pc' = IF exc = "none" THEN CallerReturn(ctx) ELSE CallerHandler(ctx)
               /\ UNCHANGED exc
           ELSE
               /\ pc' = CallerHandler(ctx) /\ exc' = d
               /\ UNCHANGED <<live, disk>>
    /\ UNCHANGED <<xfer, split, msg, media_type, file_size, file_path, edit_msg,
                   progress_message, ctx, cleanup>>

----------------------------------------------------------------------------
(* _parse_message_link: the end of a story or public link                  *)

\* Lines 622, 633 and 634-636, then 484-485: the story or public handler
\* returned or raised; an exception is printed; (None, None) is returned
\* and handle_message_download returns.  The callee's locals are gone.
parse_end ==
    /\ pc = "parse_end"
    /\ exc' = "none"
    /\ file_path' = NoPath
    /\ edit_msg' = None
    /\ pc' = "hmd_finally"
    /\ UNCHANGED <<xfer, split, msg, media_type, file_size, progress_message,
                   ctx, disk, live, hist, cleanup>>

----------------------------------------------------------------------------
(* SmartTelegramBot._download_user_stories (701-720)                       *)

\* Where a raise inside the try of _download_user_stories lands: its
\* except clause takes an RPCError, anything else goes to the caller.
StoryHandler(e) == IF e = "rpc" THEN "story_except" ELSE "parse_end"

\* Stories get_stories can return: none, one without media, one whose media
\* equals 'video', 'document' or 'photo', one whose media is another object.
StoryShapes ==
    {NoMsg, Msg({}, NoSize), Msg({"media"}, NoSize), Msg({"media", "video"}, NoSize),
     Msg({"media", "document"}, NoSize), Msg({"media", "photo"}, NoSize)}

\* Line 703.
story_start ==
    /\ pc = "story_start"
    /\ \E o \in Outcome :
        /\ Log(<<Ev("send_message", Sender, "story_downloading", o)>>)
        /\ IF o = "ok"
           THEN /\ live' = live \cup {"story_downloading"}
                /\ edit_msg' = "story_downloading"
                /\ pc' = "story_fetch" /\ UNCHANGED exc
           ELSE /\ pc' = StoryHandler(o) /\ exc' = o
                /\ UNCHANGED <<live, edit_msg>>
    /\ UNCHANGED <<xfer, split, msg, media_type, file_size, file_path,
                   progress_message, ctx, disk, cleanup>>

\* Lines 704-707.
story_fetch ==
    /\ pc = "story_fetch"
    /\ \E o \in Outcome, st \in StoryShapes, n \in Outcome :
        IF o # "ok" THEN
            /\ Log(<<Ev("get_stories", SourceChat, "story", o)>>)
            /\ pc' = StoryHandler(o) /\ exc' = o
            /\ UNCHANGED msg
        ELSE IF ~Has(st, "media") THEN
            /\ Log(<<Ev("get_stories", SourceChat, "story", o),
                     Ev("send_message", Sender, "no_story", n)>>)
            /\ msg' = st
            /\ IF n = "ok"
               THEN pc' = "parse_end" /\ UNCHANGED exc
               ELSE pc' = StoryHandler(n) /\ exc' = n
        ELSE
            /\ Log(<<Ev("get_stories", SourceChat, "story", o)>>)
            /\ msg' = st
            /\ pc' = "story_download" /\ UNCHANGED exc
    /\ UNCHANGED <<xfer, split, media_type, file_size, file_path, edit_msg,
                   progress_message, ctx, disk, live, cleanup>>

\* Line 708; a raise may leave the file, as in hmd_download.
story_download ==
    /\ pc = "story_download"
    /\ \E o \in Outcome, partial \in BOOLEAN :
        /\ Log(<<Ev("download_media", SourceChat, "story", o)>>)
        /\ IF o = "ok" THEN
               /\ disk' = Put(disk, StoryName, Bytes(1))
               /\ file_path' = StoryName
               /\ pc' = "story_upload" /\ UNCHANGED exc
           ELSE
               /\ disk' = IF partial THEN Put(disk, StoryName, <<>>) ELSE disk
               /\ pc' = StoryHandler(o) /\ exc' = o
               /\ UNCHANGED file_path
    /\ UNCHANGED <<xfer, split, msg, media_type, file_size, edit_msg,
                   progress_message, ctx, live, cleanup>>

\* story.media == 'video' / 'document' / 'photo' (710-715)
StoryIsSent(st) == Has(st, "video") \/ Has(st, "document") \/ Has(st, "photo")

\* Lines 709-715.
story_upload ==
    /\ pc = "story_upload"
    /\ \E n \in Outcome, o \in Outcome :
        IF n # "ok" THEN
            /\ Log(<<Ev("send_message", Sender, "story_uploading", n)>>)
            /\ pc' = StoryHandler(n) /\ exc' = n
        ELSE IF ~StoryIsSent(msg) THEN
            /\ Log(<<Ev("send_message", Sender, "story_uploading", n)>>)
            /\ pc' = "story_finish" /\ UNCHANGED exc
        ELSE
            /\ Log(<<Ev("send_message", Sender, "story_uploading", n),
                     Ev("send_file", Sender, "story", o)>>)
            /\ IF o = "ok"
               THEN pc' = "story_finish" /\ UNCHANGED exc
               ELSE pc' = StoryHandler(o) /\ exc' = o
    /\ UNCHANGED <<xfer, split, msg, media_type, file_size, file_path, edit_msg,
                   progress_message, ctx, disk, live, cleanup>>

\* Lines 716-718.
story_finish ==
    /\ pc = "story_finish"
    /\ disk' = IF exists(file_path) THEN Del(disk, file_path) ELSE disk
    /\ \E o \in Outcome :
        /\ Log(<<Ev("send_message", Sender, "story_ok", o)>>)
        /\ IF o = "ok"
           THEN pc' = "parse_end" /\ UNCHANGED exc
           ELSE pc' = StoryHandler(o) /\ exc' = o
    /\ UNCHANGED <<xfer, split, msg, media_type, file_size, file_path, edit_msg,
                   progress_message, ctx, live, cleanup>>

\* Lines 719-720: the notice is sent from the except clause, unguarded.
story_except ==
    /\ pc = "story_except"
    /\ \E o \in Outcome :
        /\ Log(<<Ev("send_message", Sender, "story_error", o)>>)
        /\ exc' = IF o = "ok" THEN "none" ELSE o
    /\ pc' = "parse_end"
    /\ UNCHANGED <<xfer, split, msg, media_type, file_size, file_path, edit_msg,
                   progress_message, ctx, disk, live, cleanup>>

----------------------------------------------------------------------------
(* SmartTelegramBot._copy_public_message (722-817)                         *)

\* Lines 723-724, before the try: a raise goes to _parse_message_link.
pub_target ==
    /\ pc = "pub_target"
    /\ IF parse_target_chat(target_chat_str(Sender)) = "TypeError"
       THEN pc' = "parse_end" /\ exc' = "other"
       ELSE pc' = "pub_fetch" /\ UNCHANGED exc
    /\ ctx' = "public"
    /\ UNCHANGED <<xfer, split, msg, media_type, file_size, file_path, edit_msg,
                   progress_message, disk, live, hist, cleanup>>

\* Lines 728-730.
pub_fetch ==
    /\ pc = "pub_fetch"
    /\ \E o \in Outcome, m \in MsgShapes :
        /\ Log(<<Ev("get_messages", SourceChat, "msg", o)>>)
        /\ IF o = "ok"
           THEN msg' = m /\ pc' = "pub_copy" /\ UNCHANGED exc
           ELSE UNCHANGED msg /\ pc' = "pub_except" /\ exc' = o
    /\ UNCHANGED <<xfer, split, media_type, file_size, file_path, edit_msg,
                   progress_message, ctx, disk, live, cleanup>>

\* Lines 732-763: media that is neither document nor video is re-sent when
\* it is a photo (the video and document branches below it cannot be
\* taken), then mirrored; a message with text is forwarded, or sent as text
\* when the forward raises.
pub_copy ==
    /\ pc = "pub_copy"
    /\ \E o \in Outcome, f \in Swallowed, l \in Swallowed, d \in Swallowed :
        IF Has(msg, "media") /\ ~Has(msg, "document") /\ ~Has(msg, "video") THEN
            IF Has(msg, "photo") /\ o # "ok" THEN
                /\ Log(<<Ev("send_file", target_chat_id, "photo", o)>>)
                /\ pc' = "pub_except" /\ exc' = o
                /\ UNCHANGED live
            ELSE
                /\ Log((IF Has(msg, "photo")
                        THEN <<Ev("send_file", target_chat_id, "photo", o)>> ELSE <<>>)
                       \o <<Ev("send_file", LOG_GROUP, "media", l),
                            Ev("delete", Sender, "pending", d)>>)
                /\ live' = IF d = "ok" THEN live \ {"pending"} ELSE live
                /\ pc' = "pub_finally" /\ UNCHANGED exc
        ELSE IF Has(msg, "message") THEN
            IF f # "ok" /\ o # "ok" THEN
                /\ Log(<<Ev("forward_messages", target_chat_id, "msg", f),
                         Ev("send_message", target_chat_id, "text", o)>>)
                /\ pc' = "pub_except" /\ exc' = o
                /\ UNCHANGED live
            ELSE
                /\ Log(<<Ev("forward_messages", target_chat_id, "msg", f)>>
                       \o (IF f # "ok"
                           THEN <<Ev("send_message", target_chat_id, "text", o)>> ELSE <<>>)
                       \o <<Ev("send_message", LOG_GROUP, "text", l),
                            Ev("delete", Sender, "pending", d)>>)
                /\ live' = IF d = "ok" THEN live \ {"pending"} ELSE live
                /\ pc' = "pub_finally" /\ UNCHANGED exc
        ELSE
            /\ pc' = "pub_alt"
            /\ UNCHANGED <<hist, live, exc>>
    /\ UNCHANGED <<xfer, split, msg, media_type, file_size, file_path, edit_msg,
                   progress_message, ctx, disk, cleanup>>

\* Lines 766-787: the notice, the second fetch (the call of userbot at 768
\* is guarded and does nothing), and the two early returns.
pub_alt ==
    /\ pc = "pub_alt"
    /\ \E n \in Outcome, o \in Outcome, m \in MsgShapes, e \in Outcome, d \in Swallowed :
        IF n # "ok" THEN
            /\ Log(<<Ev("send_message", Sender, "alt_method", n)>>)
            /\ pc' = "pub_except" /\ exc' = n
            /\ UNCHANGED <<msg, live, edit_msg>>
        ELSE
            /\ edit_msg' = "alt_method"
            /\ IF o # "ok" THEN
                   /\ Log(<<Ev("send_message", Sender, "alt_method", n),
                            Ev("get_messages", SourceChat, "msg", o)>>)
                   /\ live' = live \cup {"alt_method"}
                   /\ pc' = "pub_except" /\ exc' = o
                   /\ UNCHANGED msg
               ELSE IF ~m.exists \/ Has(m, "service") \/ Has(m, "empty") THEN
                   /\ Log(<<Ev("send_message", Sender, "alt_method", n),
                            Ev("get_messages", SourceChat, "msg", o),
                            Ev("edit", Sender, "not_found", e)>>)
                   /\ live' = live \cup {"alt_method"}
                   /\ msg' = m
                   /\ IF e = "ok"
                      THEN pc' = "pub_finally" /\ UNCHANGED exc
                      ELSE pc' = "pub_except" /\ exc' = e
               ELSE IF Has(m, "message") THEN
                   /\ Log(<<Ev("send_message", Sender, "alt_method", n),
                            Ev("get_messages", SourceChat, "msg", o),
                            Ev("send_message", target_chat_id, "text", e)>>
                          \o IF e = "ok"
                             THEN <<Ev("delete", Sender, "alt_method", d)>> ELSE <<>>)
                   /\ live' = IF e = "ok" /\ d = "ok" THEN live ELSE live \cup {"alt_method"}
                   /\ msg' = m
                   /\ IF e = "ok"
                      THEN pc' = "pub_finally" /\ UNCHANGED exc
                      ELSE pc' = "pub_except" /\ exc' = e
               ELSE
                   /\ Log(<<Ev("send_message", Sender, "alt_method", n),
                            Ev("get_messages", SourceChat, "msg", o)>>)
                   /\ live' = live \cup {"alt_method"}
                   /\ msg' = m
                   /\ pc' = "pub_download" /\ UNCHANGED exc
    /\ UNCHANGED <<xfer, split, media_type, file_size, file_path,
                   progress_message, ctx, disk, cleanup>>

\* Line 791; a raise may leave the file, as in hmd_download.
pub_download ==
    /\ pc = "pub_download"
    /\ \E o \in Outcome, partial \in BOOLEAN :
        /\ Log(<<Ev("download_media", SourceChat, "msg", o)>>)
        /\ IF o = "ok" THEN
               /\ disk' = Put(disk, DlName, Bytes(ActualSize(msg)))
               /\ file_path' = DlName
               /\ pc' = "pub_rename" /\ UNCHANGED exc
           ELSE
               /\ disk' = IF partial THEN Put(disk, DlName, <<>>) ELSE disk
               /\ pc' = "pub_except" /\ exc' = o
               /\ UNCHANGED file_path
    /\ UNCHANGED <<xfer, split, msg, media_type, file_size, edit_msg,
                   progress_message, ctx, live, cleanup>>

\* Lines 792-793.
pub_rename ==
    /\ pc = "pub_rename"
    /\ \E o \in {"ok", "other"} :
        IF o = "ok" THEN
            /\ disk' = Put(Del(disk, file_path), RnName, disk[file_path])
            /\ file_path' = RnName
            /\ file_size' = get_media_info(msg)[1]
            /\ media_type' = get_media_info(msg)[2]
            /\ pc' = "pub_select" /\ UNCHANGED exc
        ELSE
            /\ pc' = "pub_except" /\ exc' = o
            /\ UNCHANGED <<disk, file_path, file_size, media_type>>
    /\ UNCHANGED <<xfer, split, msg, edit_msg, progress_message, ctx, live,
                   hist, cleanup>>

\* Lines 795-809: edit_msg.delete() before the split is not guarded.
pub_select ==
    /\ pc = "pub_select"
    /\ \E dbok \in BOOLEAN, o \in Outcome :
        IF media_type = "photo" THEN
            /\ strategy' = "photo"
            /\ Log(<<Ev("send_file", target_chat_id, "photo", o)>>)
            /\ IF o = "ok"
               THEN pc' = "pub_finally" /\ UNCHANGED exc
               ELSE pc' = "pub_except" /\ exc' = o
            /\ UNCHANGED live
        ELSE IF Strategy(file_size, dbok) = "split" THEN
            /\ strategy' = "split"
            /\ Log(<<Ev("delete", Sender, edit_msg, o)>>)
            /\ IF o = "ok"
               THEN live' = live \ {edit_msg} /\ pc' = "split_start" /\ UNCHANGED exc
               ELSE UNCHANGED live /\ pc' = "pub_except" /\ exc' = o
        ELSE
            /\ strategy' = Strategy(file_size, dbok)
            /\ pc' = IF Strategy(file_size, dbok) = "large" THEN "large_start" ELSE "uwt_start"
            /\ UNCHANGED <<hist, live, exc>>
    /\ UNCHANGED <<env, split, msg, media_type, file_size, file_path, edit_msg,
                   progress_message, ctx, disk, cleanup>>

\* Lines 810-811: except Exception prints.
pub_except ==
    /\ pc = "pub_except"
    /\ exc' = "none"
    /\ pc' = "pub_finally"
    /\ UNCHANGED <<xfer, split, msg, media_type, file_size, file_path, edit_msg,
                   progress_message, ctx, disk, live, hist, cleanup>>

\* Lines 812-817.
pub_finally ==
    /\ pc = "pub_finally"
    /\ disk' = IF exists(file_path) THEN Del(disk, file_path) ELSE disk
    /\ pc' = "parse_end"
    /\ UNCHANGED <<xfer, split, msg, media_type, file_size, file_path, edit_msg,
                   progress_message, ctx, exc, live, hist, cleanup>>

----------------------------------------------------------------------------
(* Text.  A str is the sequence of its characters.                         *)

Q == "'"
SP == " "
NL == "\n"

\* The whitespace characters of the texts of the model.
Whitespace == {SP, NL}

\* str.strip(): without leading and trailing whitespace
RECURSIVE LStrip(_)
LStrip(t) == IF t # <<>> /\ Head(t) \in Whitespace THEN LStrip(Tail(t)) ELSE t

RECURSIVE RStrip(_)
RStrip(t) ==
    IF t # <<>> /\ t[Len(t)] \in Whitespace
    THEN RStrip(SubSeq(t, 1, Len(t) - 1)) ELSE t

Strip(t) == RStrip(LStrip(t))

\* str.split(): the set of the maximal runs without whitespace
RECURSIVE WordEnd(_, _)
WordEnd(t, i) == IF i < Len(t) /\ t[i + 1] # SP THEN WordEnd(t, i + 1) ELSE i

Words(t) ==
    {SubSeq(t, i, WordEnd(t, i)) :
        i \in {j \in 1..Len(t) : t[j] # SP /\ (j = 1 \/ t[j - 1] = SP)}}

Digits == {"7"}

\* int(text.strip()) of line 977, <<>> for ValueError.  The one number the
\* texts can spell is the chat id TargetChat.
ParseInt(t) ==
    IF Strip(t) # <<>> /\ \A i \in 1..Len(Strip(t)) : Strip(t)[i] \in Digits
    THEN <<TargetChat>> ELSE <<>>

\* re.match(r"'(.+)' '(.+)'", t) of line 994: <<old_word, new_word>>, or <<>>
\* for None.  The match is anchored at the start only; both groups are
\* greedy, the first one first.  e1 and e2 are the last positions of the
\* two groups.
Group2Ends(t, e1) == {e2 \in (e1 + 4)..(Len(t) - 1) : t[e2 + 1] = Q}

Group1Ends(t) ==
    {e1 \in 2..(Len(t) - 5) :
        /\ t[e1 + 1] = Q /\ t[e1 + 2] = SP /\ t[e1 + 3] = Q
        /\ Group2Ends(t, e1) # {}}

Max(S) == CHOOSE x \in S : \A y \in S : y <= x

re_match(t) ==
    IF Len(t) >= 7 /\ t[1] = Q /\ Group1Ends(t) # {}
    THEN LET e1 == Max(Group1Ends(t))
             e2 == Max(Group2Ends(t, e1))
         IN  <<SubSeq(t, 2, e1), SubSeq(t, e1 + 4, e2)>>
    ELSE <<>>

----------------------------------------------------------------------------
(* DatabaseManager: the user documents and the cache                       *)

Keys == {"target_chat_id", "rename_tag", "custom_caption", "delete_words",
         "replacement_words", "upload_method", "session_string"}

NoDoc == [k \in Keys |-> <<>>]

\* get_user_data: the value returned.  c and col are the cache and the
\* collection at the call, dbok whether find_one returns.
get_user_data(c, col, u, key, default, dbok) ==
    IF c[u][key] # <<>> THEN c[u][key][1]
    ELSE IF dbok /\ col[u][key] # <<>> THEN col[u][key][1]
    ELSE default

\* get_user_data: the cache it leaves (line 71).
get_user_data_cache(c, col, u, key, default, dbok) ==
    IF c[u][key] = <<>> /\ dbok
    THEN [c EXCEPT ![u][key] = <<get_user_data(c, col, u, key, default, dbok)>>]
    ELSE c

\* save_user_data: the collection and the cache it leaves.
save_user_data_col(col, u, key, value, dbok) ==
    IF dbok THEN [col EXCEPT ![u][key] = <<value>>] ELSE col

save_user_data_cache(c, u, key, value, dbok) ==
    IF dbok THEN [c EXCEPT ![u][key] = <<value>>] ELSE c

\* The fields reset_user_data unsets among the fields of the model
\* (watermark_text and duration_limit are written by no handler).
ResetKeys == {"delete_words", "replacement_words", "custom_caption", "rename_tag"}

reset_user_data_col(col, u, dbok) ==
    IF dbok THEN [col EXCEPT ![u] = [k \in Keys |-> IF k \in ResetKeys THEN <<>> ELSE @[k]]]
    ELSE col

\* A second user of the bot, whose numeric id starts with the digits of
\* the sender's id.
OtherUser == "u12"
Accounts == Users \cup {OtherUser}

\* str(user_id): the sender's id is 1, the other user's 12.
StrUserId(u) == IF u = Sender THEN <<"1">> ELSE <<"1", "2">>

\* Line 65: cache_key = f"{user_id}:{key}", the key being one symbol.
CacheKey(u, key) == StrUserId(u) \o <<":">> \o <<key>>

\* str.startswith
StartsWith(t, prefix) ==
    Len(t) >= Len(prefix) /\ SubSeq(t, 1, Len(prefix)) = prefix

\* A clear_user_cache that matches the id without the colon after it.
clear_user_cache_NoColon(c, user_id) ==
    [u \in DOMAIN c |->
        [k \in Keys |-> IF StartsWith(CacheKey(u, k), StrUserId(user_id))
                        THEN <<>> ELSE c[u][k]]]

\* Lines 87-90: every key that starts with f"{user_id}:" is removed.
clear_user_cache(c, user_id) ==
    [u \in DOMAIN c |->
        [k \in Keys |-> IF StartsWith(CacheKey(u, k), StrUserId(user_id) \o <<":">>)
                        THEN <<>> ELSE c[u][k]]]

\* reset_user_data reaches clear_user_cache only when update_one returned.
reset_user_data_cache(c, u, dbok) ==
    IF dbok THEN clear_user_cache(c, u) ELSE c

\* An empty dict, and a dict with one more item.
EmptyDict == [w \in {} |-> <<>>]
SetItem(d, k, v) == [w \in DOMAIN d \cup {k} |-> IF w = k THEN v ELSE d[w]]

ThumbName(u) == <<u, -2>>

----------------------------------------------------------------------------
(* The settings handlers.  A handler runs from its first line to its      *)
(* return or to the exception that ends it; respond and edit either send  *)
(* the text or raise.                                                      *)

SessionTypes == {"addsession", "setchat", "setrename", "setcaption",
                 "setreplacement", "deleteword"}

\* event.data of the buttons of send_settings_panel (lines 832-841) and of
\* the upload-method menu (line 874).
MenuData == {"uploadmethod", "telethon", "logout", "addsession", "setchat",
             "setrename", "setcaption", "setreplacement", "delete", "setthumb",
             "remthumb", "pdfwt", "watermark", "reset"}

\* The session type a button stores (lines 892-916).
SessionOf(data) == IF data = "delete" THEN "deleteword" ELSE data

PromptData == {"addsession", "setchat", "setrename", "setcaption",
               "setreplacement", "delete"}

\* The settings handlers are followed for MaxUpdates updates (button presses
\* and messages); event.n counts the updates received.
MaxUpdates == 3

Idle(n) == [stage |-> "idle", user |-> Sender, text |-> <<>>, photo |-> FALSE,
            n |-> n]

Reply(handler, text, sent) == [handler |-> handler, text |-> text, sent |-> sent]

\* Messages a user sends while a prompt of the given type is open.
ChatTexts == {<<"7", "7">>, <<SP, "7", "7">>, <<"7", "a">>}
TagTexts == {<<"a">>}
RuleTexts == {<<Q, "a", Q, SP, Q, "b", Q>>, <<"a", SP, "b">>, <<Q, "a", Q>>,
              <<Q, "a", Q, SP, Q, "b", Q, SP, "a">>}
DeleteTexts == {<<"a">>, <<"a", SP, "b">>}

TextsFor(session_type) ==
    CASE session_type = "setchat" -> ChatTexts
      [] session_type = "setreplacement" -> RuleTexts
      [] session_type = "deleteword" -> DeleteTexts
      [] OTHER -> TagTexts

\* Lines 864-954.
callback_query_handler ==
    /\ pc = "settings"
    /\ event.stage = "idle"
    /\ event.n < MaxUpdates
    /\ event' = [event EXCEPT !.n = @ + 1]
    /\ \E user_id \in Users, data \in MenuData, dbok \in BOOLEAN, sent \in BOOLEAN :
        LET thumb_path == ThumbName(user_id)
            thumb == thumb_path \in DOMAIN disk
        IN
        /\ user_sessions' =
              IF data \in PromptData
              THEN [user_sessions EXCEPT ![user_id] = SessionOf(data)]
              ELSE user_sessions
        /\ pending_photos' =
              IF data = "setthumb" THEN pending_photos \cup {user_id}
              ELSE pending_photos
        /\ collection' =
              CASE data = "telethon" ->
                     save_user_data_col(collection, user_id, "upload_method", "Telethon", dbok)
                [] data = "reset" -> reset_user_data_col(collection, user_id, dbok)
                [] OTHER -> collection
        /\ cache' =
              CASE data = "uploadmethod" ->
                     get_user_data_cache(cache, collection, user_id, "upload_method", "SpyLib", dbok)
                [] data = "telethon" ->
                     save_user_data_cache(cache, user_id, "upload_method", "Telethon", dbok)
                [] data = "reset" -> reset_user_data_cache(cache, user_id, dbok)
                [] OTHER -> cache
        /\ user_chat_ids' =
              IF data = "reset" THEN [user_chat_ids EXCEPT ![user_id] = None]
              ELSE user_chat_ids
        /\ user_rename_prefs' =
              IF data = "reset" THEN [user_rename_prefs EXCEPT ![user_id] = <<>>]
              ELSE user_rename_prefs
        /\ user_caption_prefs' =
              IF data = "reset" THEN [user_caption_prefs EXCEPT ![user_id] = <<>>]
              ELSE user_caption_prefs
        /\ disk' =
              IF data \in {"remthumb", "reset"} /\ thumb THEN Del(disk, thumb_path)
              ELSE disk
        /\ reply' =
              CASE data = "reset" ->
                     Reply("callback", IF dbok THEN "reset_ok" ELSE "reset_error", sent)
                [] data = "remthumb" ->
                     Reply("callback", IF thumb THEN "thumb_removed" ELSE "no_thumb", sent)
                [] OTHER -> Reply("callback", data, sent)
    /\ UNCHANGED <<transfer, file_names, captions, tasks>>

\* The arrival of a message: gf dispatches it to thumbnail_handler (line
\* 956) and then to user_input_handler (line 970), in the order of their
\* registration.
NewMessage ==
    /\ pc = "settings"
    /\ event.stage = "idle"
    /\ event.n < MaxUpdates
    /\ \E user_id \in Users, photo \in BOOLEAN :
       \E text \in TextsFor(user_sessions[user_id]) :
          event' = [stage |-> "thumbnail", user |-> user_id, text |-> text,
                    photo |-> photo, n |-> event.n + 1]
    /\ UNCHANGED <<transfer, user_chat_ids, disk, user_sessions, pending_photos,
                   user_rename_prefs, user_caption_prefs, collection, cache,
                   reply, file_names, captions, tasks>>

\* Lines 956-968.
thumbnail_handler ==
    /\ pc = "settings"
    /\ event.stage = "thumbnail"
    /\ LET user_id == event.user IN
       IF user_id \in pending_photos THEN
           \E downloaded \in BOOLEAN, sent \in BOOLEAN :
              IF event.photo /\ ~downloaded THEN
                  UNCHANGED <<disk, reply, pending_photos>>
              ELSE
                  /\ disk' = IF event.photo
                             THEN Put(disk, ThumbName(user_id), <<>>) ELSE disk
                  /\ reply' = Reply("thumbnail",
                                    IF event.photo THEN "thumb_saved" ELSE "send_photo",
                                    sent)
                  /\ pending_photos' = IF sent THEN pending_photos \ {user_id}
                                       ELSE pending_photos
       ELSE UNCHANGED <<disk, reply, pending_photos>>
    /\ event' = [event EXCEPT !.stage = "user_input"]
    /\ UNCHANGED <<transfer, user_chat_ids, user_sessions, user_rename_prefs,
                   user_caption_prefs, collection, cache, file_names,
                   captions, tasks>>

\* What user_input_handler (lines 973-1023) leaves for a user whose session
\* has the given type: the dictionaries, the collection, the cache, the
\* reply, and whether line 1023 was reached.  d1, d2, d3 tell whether its
\* first, second and third database call returns, sent and sent2 whether
\* its first and second respond are sent.
Unchanged ==
    [chat |-> user_chat_ids, rename |-> user_rename_prefs,
     caption |-> user_caption_prefs, col |-> collection, cache |-> cache,
     reply |-> reply, cleared |-> FALSE]

setchat(user_id, text, d1, sent, sent2) ==
    LET chat_id == ParseInt(text) IN
    IF chat_id # <<>> THEN
        [Unchanged EXCEPT
            !.chat = [user_chat_ids EXCEPT ![user_id] = chat_id[1]],
            !.col = save_user_data_col(collection, user_id, "target_chat_id", chat_id[1], d1),
            !.cache = save_user_data_cache(cache, user_id, "target_chat_id", chat_id[1], d1),
            !.reply = IF sent THEN Reply("user_input", "chat_set", TRUE)
                      ELSE Reply("user_input", "invalid_chat", sent2),
            !.cleared = sent \/ sent2]
    ELSE
        [Unchanged EXCEPT !.reply = Reply("user_input", "invalid_chat", sent),
                          !.cleared = sent]

setrename(user_id, text, d1, sent) ==
    LET rename_tag == Strip(text) IN
    [Unchanged EXCEPT
        !.rename = [user_rename_prefs EXCEPT ![user_id] = <<rename_tag>>],
        !.col = save_user_data_col(collection, user_id, "rename_tag", rename_tag, d1),
        !.cache = save_user_data_cache(cache, user_id, "rename_tag", rename_tag, d1),
        !.reply = Reply("user_input", "rename_set", sent),
        !.cleared = sent]

setcaption(user_id, text, d1, sent) ==
    LET custom_caption == Strip(text) IN
    [Unchanged EXCEPT
        !.caption = [user_caption_prefs EXCEPT ![user_id] = <<custom_caption>>],
        !.col = save_user_data_col(collection, user_id, "custom_caption", custom_caption, d1),
        !.cache = save_user_data_cache(cache, user_id, "custom_caption", custom_caption, d1),
        !.reply = Reply("user_input", "caption_set", sent),
        !.cleared = sent]

setreplacement(user_id, text, d1, d2, d3, sent) ==
    LET match == re_match(text) IN
    IF match = <<>> THEN
        [Unchanged EXCEPT !.reply = Reply("user_input", "invalid_format", sent),
                          !.cleared = sent]
    ELSE
        LET old_word == match[1]
            new_word == match[2]
            delete_words == get_user_data(cache, collection, user_id, "delete_words", {}, d1)
            cache1 == get_user_data_cache(cache, collection, user_id, "delete_words", {}, d1)
        IN
        IF old_word \in delete_words THEN
            [Unchanged EXCEPT !.cache = cache1,
                              !.reply = Reply("user_input", "in_delete_list", sent),
                              !.cleared = sent]
        ELSE
            LET read == get_user_data(cache1, collection, user_id,
                                      "replacement_words", EmptyDict, d2)
                cache2 == get_user_data_cache(cache1, collection, user_id,
                                              "replacement_words", EmptyDict, d2)
                replacements == SetItem(read, old_word, new_word)
                \* line 1004 writes into the dict get_user_data returned,
                \* which is the cached object whenever the key is cached
                cache3 == IF cache2[user_id]["replacement_words"] # <<>>
                          THEN [cache2 EXCEPT ![user_id]["replacement_words"] = <<replacements>>]
                          ELSE cache2
            IN
            [Unchanged EXCEPT
                !.col = save_user_data_col(collection, user_id, "replacement_words", replacements, d3),
                !.cache = save_user_data_cache(cache3, user_id, "replacement_words", replacements, d3),
                !.reply = Reply("user_input", "rule_saved", sent),
                !.cleared = sent]

\* has_set_session: hasattr(odb, 'set_session'); d1: the call that stores
\* the string returns.
addsession(user_id, text, has_set_session, d1, sent) ==
    LET session_string == Strip(text) IN
    IF has_set_session THEN
        IF d1 THEN [Unchanged EXCEPT !.reply = Reply("user_input", "session_added", sent),
                                     !.cleared = sent]
        ELSE Unchanged
    ELSE
        [Unchanged EXCEPT
            !.col = save_user_data_col(collection, user_id, "session_string", session_string, d1),
            !.cache = save_user_data_cache(cache, user_id, "session_string", session_string, d1),
            !.reply = Reply("user_input", "session_added", sent),
            !.cleared = sent]

deleteword(user_id, text, d1, d2, sent) ==
    LET words_to_delete == Words(text)
        cache1 == get_user_data_cache(cache, collection, user_id, "delete_words", {}, d1)
        delete_words == get_user_data(cache, collection, user_id, "delete_words", {}, d1)
                        \cup words_to_delete
    IN
    [Unchanged EXCEPT
        !.col = save_user_data_col(collection, user_id, "delete_words", delete_words, d2),
        !.cache = save_user_data_cache(cache1, user_id, "delete_words", delete_words, d2),
        !.reply = Reply("user_input", "words_added", sent),
        !.cleared = sent]

\* Lines 970-1023.
user_input_handler ==
    /\ pc = "settings"
    /\ event.stage = "user_input"
    /\ LET user_id == event.user
           session_type == user_sessions[user_id]
           text == event.text
       IN
       IF session_type = None THEN
           UNCHANGED <<user_chat_ids, user_rename_prefs, user_caption_prefs,
                       collection, cache, reply, user_sessions>>
       ELSE
           \E d1 \in BOOLEAN, d2 \in BOOLEAN, d3 \in BOOLEAN,
              sent \in BOOLEAN, sent2 \in BOOLEAN :
              LET r == CASE session_type = "setchat" -> setchat(user_id, text, d1, sent, sent2)
                         [] session_type = "setrename" -> setrename(user_id, text, d1, sent)
                         [] session_type = "setcaption" -> setcaption(user_id, text, d1, sent)
                         [] session_type = "setreplacement" ->
                                setreplacement(user_id, text, d1, d2, d3, sent)
                         [] session_type = "addsession" -> addsession(user_id, text, d2, d1, sent)
                         [] session_type = "deleteword" -> deleteword(user_id, text, d1, d2, sent)
              IN
              /\ user_chat_ids' = r.chat
              /\ user_rename_prefs' = r.rename
              /\ user_caption_prefs' = r.caption
              /\ collection' = r.col
              /\ cache' = r.cache
              /\ reply' = r.reply
              \* line 1023
              /\ user_sessions' = IF r.cleared
                                  THEN [user_sessions EXCEPT ![user_id] = None]
                                  ELSE user_sessions
    /\ event' = Idle(event.n)
    /\ UNCHANGED <<transfer, disk, pending_photos, file_names, captions, tasks>>

----------------------------------------------------------------------------
Init ==
    /\ pc = "start"
    /\ link \in [kind : LinkKinds, malformed : BOOLEAN]
    /\ protectedDB \in {{}, {SourceChat}}
    /\ pro_client \in BOOLEAN
    /\ premium \in BOOLEAN
    /\ user_chat_ids \in [Users -> {None, TargetChat}]
    /\ msg = NoMsg
    /\ media_type = None
    /\ file_size = NoSize
    /\ file_path = NoPath
    /\ edit_msg = None
    /\ progress_message = None
    /\ ctx = "private"
    /\ exc = "none"
    /\ disk = NoFiles
    /\ live = {"pending"}
    /\ hist = <<>>
    /\ part_number = 0
    /\ offset = 0
    /\ part_file = NoPath
    /\ parts = <<>>
    /\ start_msg = FALSE
    /\ strategy = None
    /\ cleanup = FALSE
    /\ user_sessions = [u \in Users |-> None]
    /\ pending_photos = {}
    /\ user_rename_prefs = [u \in Users |-> <<>>]
    /\ user_caption_prefs = [u \in Users |-> <<>>]
    /\ collection = [u \in Users |-> NoDoc]
    /\ cache = [u \in Users |-> NoDoc]
    /\ event = Idle(0)
    /\ reply = Reply(None, None, FALSE)
    /\ file_names = <<>>
    /\ captions = <<>>
    /\ tasks = <<>>

Next ==
    \/ hmd_parse \/ hmd_target \/ hmd_fetch \/ hmd_special \/ hmd_direct_media
    \/ hmd_downloading \/ hmd_download \/ hmd_rename \/ hmd_select \/ hmd_photo
    \/ hmd_except \/ hmd_finally
    \/ uwt_start \/ uwt_send \/ uwt_except
    \/ large_start \/ large_send \/ large_end
    \/ parse_end
    \/ story_start \/ story_fetch \/ story_download \/ story_upload
    \/ story_finish \/ story_except
    \/ pub_target \/ pub_fetch \/ pub_copy \/ pub_alt \/ pub_download
    \/ pub_rename \/ pub_select \/ pub_except \/ pub_finally
    \/ split_start \/ split_read \/ split_notice \/ split_upload \/ split_finally

Spec == Init /\ [][Next]_vars

\* Every capability call and file operation returns or raises: a transfer
\* that can take a step takes one.
FairSpec == Spec /\ WF_vars(Next)

----------------------------------------------------------------------------
(* split_large_file on its own: called with a file of any size up to       *)
(* MaxFileSize, or with the path of a file that does not exist.            *)

InitSplit ==
    /\ pc = "split_start"
    /\ ctx = "direct_call"
    /\ link = [kind |-> "c", malformed |-> FALSE]
    /\ protectedDB = {}
    /\ pro_client = FALSE
    /\ premium = FALSE
    /\ user_chat_ids = [u \in Users |-> None]
    /\ msg \in {Msg({"media", "document"}, <<s>>) : s \in 0..MaxFileSize}
    /\ media_type = "document"
    /\ file_size = msg.size
    /\ file_path = RnName
    /\ disk \in {NoFiles, Put(NoFiles, RnName, Bytes(ActualSize(msg)))}
    /\ edit_msg = None
    /\ progress_message = None
    /\ exc = "none"
    /\ live = {}
    /\ hist = <<>>
    /\ part_number = 0
    /\ offset = 0
    /\ part_file = NoPath
    /\ parts = <<>>
    /\ start_msg = FALSE
    /\ strategy = "split"
    /\ cleanup = FALSE
    /\ user_sessions = [u \in Users |-> None]
    /\ pending_photos = {}
    /\ user_rename_prefs = [u \in Users |-> <<>>]
    /\ user_caption_prefs = [u \in Users |-> <<>>]
    /\ collection = [u \in Users |-> NoDoc]
    /\ cache = [u \in Users |-> NoDoc]
    /\ event = Idle(0)
    /\ reply = Reply(None, None, FALSE)
    /\ file_names = <<>>
    /\ captions = <<>>
    /\ tasks = <<>>

NextSplit == split_start \/ split_read \/ split_notice \/ split_upload \/ split_finally

SpecSplit == InitSplit /\ [][NextSplit]_vars


----------------------------------------------------------------------------
(* FileOperations.process_filename on names in the working directory      *)

DOT == "."

\* str.replace(w, r) for a non-empty w: the occurrences from the left,
\* without overlap.
RECURSIVE Replace(_, _, _)
Replace(t, w, r) ==
    IF Len(t) < Len(w) THEN t
    ELSE IF SubSeq(t, 1, Len(w)) = w
         THEN r \o Replace(SubSeq(t, Len(w) + 1, Len(t)), w, r)
         ELSE <<Head(t)>> \o Replace(Tail(t), w, r)

\* The position of the dot that starts Path(name).suffix, 0 when the suffix
\* is empty: the last dot, unless it is the first or the last character.
SuffixDot(name) ==
    LET dots == {i \in 2..(Len(name) - 1) : name[i] = DOT}
    IN  IF dots = {} \/ name[Len(name)] = DOT THEN 0 ELSE Max(dots)

PathStem(name) ==
    IF SuffixDot(name) = 0 THEN name ELSE SubSeq(name, 1, SuffixDot(name) - 1)

\* path.suffix.lstrip('.')
PathExtension(name) ==
    IF SuffixDot(name) = 0 THEN <<>>
    ELSE SubSeq(name, SuffixDot(name) + 1, Len(name))

\* str.lower() on the characters of the names of the model
LowerChar(ch) ==
    CASE ch = "M" -> "m" [] ch = "K" -> "k" [] ch = "V" -> "v" [] OTHER -> ch

Lower(t) == [i \in 1..Len(t) |-> LowerChar(t[i])]

MP4 == <<"m", "p", "4">>

\* BotConfig.VIDEO_EXTS, the members that the names of the model can carry
VIDEO_EXTS == {MP4, <<"m", "k", "v">>}

\* Lines 246-247 for a set of at most one word.
RECURSIVE DeleteAll(_, _)
DeleteAll(name, words) ==
    IF words = {} THEN name
    ELSE LET w == CHOOSE x \in words : TRUE
         IN  DeleteAll(Replace(name, w, <<>>), words \ {w})

\* Lines 249-250 for a dict of at most one item.
RECURSIVE ReplaceItems(_, _)
ReplaceItems(name, d) ==
    IF DOMAIN d = {} THEN name
    ELSE LET w == CHOOSE x \in DOMAIN d : TRUE
         IN  ReplaceItems(Replace(name, w, d[w]),
                          [x \in DOMAIN d \ {w} |-> d[x]])

\* Lines 242-258: the name process_filename gives the file.
new_name(path, delete_words, replacements, rename_tag) ==
    LET name == ReplaceItems(DeleteAll(PathStem(path), delete_words), replacements)
        ext == PathExtension(path)
        extension == IF Lower(ext) \in VIDEO_EXTS /\ Lower(ext) # MP4 THEN MP4 ELSE ext
    IN  Strip(name) \o <<SP>> \o rename_tag \o <<DOT>> \o extension

\* The default of line 240.
DefaultTag == <<"u", "n", "k", "n", "o", "w", "n", SP, "m", "a", "n">>

\* process_filename is followed for MaxRenames applications.
MaxRenames == 2

\* Lines 237-258, applied to the name the last application returned.  d1,
\* d2, d3: the three reads of the collection return.  os.rename (line 257)
\* raises when the file is not there; when another file has the new name
\* it replaces that file on POSIX and raises on Windows.
process_filename ==
    /\ pc = "rename"
    /\ Len(file_names) <= MaxRenames
    /\ \E d1 \in BOOLEAN, d2 \in BOOLEAN, d3 \in BOOLEAN, posix \in BOOLEAN :
        LET user_id == Sender
            path == file_names[Len(file_names)]
            delete_words == get_user_data(cache, collection, user_id, "delete_words", {}, d1)
            cache1 == get_user_data_cache(cache, collection, user_id, "delete_words", {}, d1)
            replacements == get_user_data(cache1, collection, user_id,
                                          "replacement_words", EmptyDict, d2)
            cache2 == get_user_data_cache(cache1, collection, user_id,
                                          "replacement_words", EmptyDict, d2)
            rename_tag == get_user_data(cache2, collection, user_id,
                                        "rename_tag", DefaultTag, d3)
            cache3 == get_user_data_cache(cache2, collection, user_id,
                                          "rename_tag", DefaultTag, d3)
            new_path == new_name(path, delete_words, replacements, rename_tag)
        IN
        /\ cache' = cache3
        /\ IF path \notin DOMAIN disk
              \/ (new_path \in DOMAIN disk /\ new_path # path /\ ~posix)
           THEN UNCHANGED <<disk, file_names>>
           ELSE /\ disk' = Put(Del(disk, path), new_path, disk[path])
                /\ file_names' = Append(file_names, new_path)
    /\ UNCHANGED <<transfer, user_chat_ids, user_sessions, pending_photos,
                   user_rename_prefs, user_caption_prefs, collection, event, reply,
                   captions, tasks>>

\* Names of downloaded files.
FileNames ==
    {stem \o ext : stem \in {<<"a">>, <<"a", SP, "t">>, <<"t", "a">>},
                   ext \in {<<DOT, "m", "k", "v">>, <<DOT, "M", "K", "V">>,
                            <<DOT, "m", "p", "4">>, <<DOT, "p">>, <<>>}}

\* The name an earlier call of process_filename gave a file of this name
\* when the tag was 't'.
RenamedBefore(name) == new_name(name, {}, EmptyDict, <<"t">>)

\* Preferences the settings handlers can have stored.
RenameDocs ==
    {[NoDoc EXCEPT !["delete_words"] = dw, !["replacement_words"] = rw,
                   !["rename_tag"] = tag] :
        dw \in {<<>>, <<{<<"a">>}>>, <<{<<"t">>}>>},
        rw \in {<<>>, <<SetItem(EmptyDict, <<"a">>, <<"b">>)>>},
        tag \in {<<>>, <<<<"t">>>>, <<<<>>>>}}

\* The locals of a transfer while no transfer is running.
NoTransfer ==
    /\ link = [kind |-> "c", malformed |-> FALSE]
    /\ protectedDB = {}
    /\ pro_client = FALSE
    /\ premium = FALSE
    /\ msg = NoMsg
    /\ media_type = None
    /\ file_size = NoSize
    /\ file_path = NoPath
    /\ edit_msg = None
    /\ progress_message = None
    /\ ctx = "private"
    /\ exc = "none"
    /\ live = {}
    /\ hist = <<>>
    /\ part_number = 0
    /\ offset = 0
    /\ part_file = NoPath
    /\ parts = <<>>
    /\ start_msg = FALSE
    /\ strategy = None
    /\ cleanup = FALSE

\* Documents an earlier run of the bot can have left in the collection.
StoredDocs ==
    {NoDoc,
     [NoDoc EXCEPT !["delete_words"] = <<{<<"a">>}>>],
     [NoDoc EXCEPT !["replacement_words"] = <<SetItem(EmptyDict, <<"a">>, <<"b">>)>>]}

\* Lines 336-340 and 62: the dictionaries and the cache start empty; the
\* collection is what the database holds.
InitPrefs ==
    /\ pc = "settings"
    /\ NoTransfer
    /\ user_chat_ids = [u \in Users |-> None]
    /\ disk = NoFiles
    /\ user_sessions = [u \in Users |-> None]
    /\ pending_photos = {}
    /\ user_rename_prefs = [u \in Users |-> <<>>]
    /\ user_caption_prefs = [u \in Users |-> <<>>]
    /\ collection \in [Users -> StoredDocs]
    /\ cache = [u \in Users |-> NoDoc]
    /\ event = Idle(0)
    /\ reply = Reply(None, None, FALSE)
    /\ file_names = <<>>
    /\ captions = <<>>
    /\ tasks = <<>>

NextPrefs ==
    callback_query_handler \/ NewMessage \/ thumbnail_handler \/ user_input_handler

SpecPrefs == InitPrefs /\ [][NextPrefs]_vars

\* The document of the other user, which the cache holds too.
OtherDoc ==
    [NoDoc EXCEPT !["delete_words"] = <<{<<"a">>}>>, !["rename_tag"] = <<<<"t">>>>,
                  !["target_chat_id"] = <<77>>]

\* The settings handlers serving the sender while the other user has
\* preferences stored and cached, a prompt open, a thumbnail awaited and a
\* thumbnail file, and a target chat set.
InitFrame ==
    /\ pc = "settings"
    /\ NoTransfer
    /\ user_chat_ids = [u \in Accounts |-> IF u = OtherUser THEN TargetChat ELSE None]
    /\ disk = Put(NoFiles, ThumbName(OtherUser), <<>>)
    /\ user_sessions = [u \in Accounts |-> IF u = OtherUser THEN "setrename" ELSE None]
    /\ pending_photos = {OtherUser}
    /\ user_rename_prefs = [u \in Accounts |-> IF u = OtherUser THEN <<<<"t">>>> ELSE <<>>]
    /\ user_caption_prefs = [u \in Accounts |-> IF u = OtherUser THEN <<<<"b">>>> ELSE <<>>]
    /\ \E doc \in StoredDocs :
          collection = [u \in Accounts |-> IF u = OtherUser THEN OtherDoc ELSE doc]
    /\ cache = [u \in Accounts |-> IF u = OtherUser THEN OtherDoc ELSE NoDoc]
    /\ event = Idle(0)
    /\ reply = Reply(None, None, FALSE)
    /\ file_names = <<>>
    /\ captions = <<>>
    /\ tasks = <<>>

SpecFrame == InitFrame /\ [][NextPrefs]_vars

\* The replacement-rule prompt on every text of up to MaxTextLen characters.
MaxTextLen == 8
Alphabet == {Q, SP, "a"}
AllTexts == UNION {[1..n -> Alphabet] : n \in 0..MaxTextLen}

InitRule ==
    /\ pc = "settings"
    /\ NoTransfer
    /\ user_chat_ids = [u \in Users |-> None]
    /\ disk = NoFiles
    /\ user_sessions = [u \in Users |-> "setreplacement"]
    /\ pending_photos = {}
    /\ user_rename_prefs = [u \in Users |-> <<>>]
    /\ user_caption_prefs = [u \in Users |-> <<>>]
    /\ collection \in [Users -> StoredDocs]
    /\ cache = [u \in Users |-> NoDoc]
    /\ \E text \in AllTexts :
          event = [stage |-> "thumbnail", user |-> Sender, text |-> text,
                   photo |-> FALSE, n |-> 1]
    /\ reply = Reply(None, None, FALSE)
    /\ file_names = <<>>
    /\ captions = <<>>
    /\ tasks = <<>>

NextRule == thumbnail_handler \/ user_input_handler

SpecRule == InitRule /\ [][NextRule]_vars

InitRename ==
    /\ pc = "rename"
    /\ NoTransfer
    /\ user_chat_ids = [u \in Users |-> None]
    /\ user_sessions = [u \in Users |-> None]
    /\ pending_photos = {}
    /\ user_rename_prefs = [u \in Users |-> <<>>]
    /\ user_caption_prefs = [u \in Users |-> <<>>]
    /\ collection \in [Users -> RenameDocs]
    /\ cache = [u \in Users |-> NoDoc]
    /\ event = Idle(0)
    /\ reply = Reply(None, None, FALSE)
    /\ \E name \in FileNames : file_names = <<name>>
    /\ \E there \in BOOLEAN :
          disk = IF there
                 THEN Put(Put(NoFiles, RenamedBefore(file_names[1]), <<2>>),
                          file_names[1], <<1>>)
                 ELSE Put(NoFiles, file_names[1], <<1>>)
    /\ captions = <<>>
    /\ tasks = <<>>

NextRename == process_filename

SpecRename == InitRename /\ [][NextRename]_vars

----------------------------------------------------------------------------
(* process_user_caption                                                    *)

\* Lines 368-376: the caption returned, <<>> for None.  original_caption
\* is <<>> for None and <<text>> for a text.
processed_caption(original_caption, custom_caption, delete_words, replacements) ==
    LET original == IF original_caption = <<>> THEN <<>> ELSE original_caption[1]
        replaced == ReplaceItems(DeleteAll(original, delete_words), replacements)
        processed == IF custom_caption # <<>>
                     THEN Strip(replaced \o <<NL, NL>> \o custom_caption)
                     ELSE replaced
    IN  IF processed # <<>> THEN <<processed>> ELSE <<>>

\* Captions of source messages.
CaptionTexts ==
    {<<>>, <<SP>>, <<"h">>, <<"a">>, <<"h", SP, "a">>, <<"a", SP, "h">>,
     <<"a", SP, "a">>}

OriginalCaptions == {<<>>} \cup {<<t>> : t \in CaptionTexts}

\* process_user_caption is followed for MaxCaptions calls.
MaxCaptions == 2

\* Lines 364-376.  d1, d2, d3: the three reads of the collection return.
\* Line 365 reads the collection only when the dictionary has no caption
\* for the user.
process_user_caption ==
    /\ pc = "caption"
    /\ Len(captions) < MaxCaptions
    /\ \E original_caption \in OriginalCaptions,
          d1 \in BOOLEAN, d2 \in BOOLEAN, d3 \in BOOLEAN :
        LET user_id == Sender
            pref == user_caption_prefs[user_id]
            inmem == pref # <<>> /\ pref[1] # <<>>
            custom_caption ==
                IF inmem THEN pref[1]
                ELSE get_user_data(cache, collection, user_id, "custom_caption", <<>>, d1)
            cache1 ==
                IF inmem THEN cache
                ELSE get_user_data_cache(cache, collection, user_id,
                                         "custom_caption", <<>>, d1)
            delete_words == get_user_data(cache1, collection, user_id, "delete_words", {}, d2)
            cache2 == get_user_data_cache(cache1, collection, user_id, "delete_words", {}, d2)
            replacements == get_user_data(cache2, collection, user_id,
                                          "replacement_words", EmptyDict, d3)
            cache3 == get_user_data_cache(cache2, collection, user_id,
                                          "replacement_words", EmptyDict, d3)
        IN
        /\ cache' = cache3
        /\ captions' = Append(captions,
              [by |-> "process_user_caption",
               original |-> original_caption,
               custom_caption |-> custom_caption,
               delete_words |-> delete_words,
               replacements |-> replacements,
               result |-> processed_caption(original_caption, custom_caption,
                                            delete_words, replacements)])
    /\ UNCHANGED <<transfer, user_chat_ids, disk, user_sessions, pending_photos,
                   user_rename_prefs, user_caption_prefs, collection, event, reply,
                   file_names, tasks>>

\* Lines 823-824 for a set of at most one word: each occurrence becomes
\* two spaces.
RECURSIVE BlankAll(_, _)
BlankAll(text, words) ==
    IF words = {} THEN text
    ELSE LET w == CHOOSE x \in words : TRUE
         IN  BlankAll(Replace(text, w, <<SP, SP>>), words \ {w})

\* The markup line 828 puts around the custom caption.
BoldItalic(text) == <<"_", "_", "*", "*">> \o text \o <<"*", "*", "_", "_">>

\* Lines 821-829: the caption returned, always a text.
formatted_caption(original_caption, custom_caption, delete_words, replacements) ==
    LET original == IF original_caption = <<>> THEN <<>> ELSE original_caption[1]
        processed == ReplaceItems(BlankAll(original, delete_words), replacements)
    IN  IF custom_caption # <<>>
        THEN IF processed # <<>>
             THEN <<processed \o <<NL, NL>> \o BoldItalic(custom_caption)>>
             ELSE <<BoldItalic(custom_caption)>>
        ELSE <<processed>>

\* Lines 729-730 with _format_caption_with_custom (819-829): the custom
\* caption is the one of the dictionary, '' when it has none.  d1, d2: the
\* two reads of the collection return.
format_caption_with_custom ==
    /\ pc = "caption"
    /\ Len(captions) < MaxCaptions
    /\ \E original_caption \in OriginalCaptions, d1 \in BOOLEAN, d2 \in BOOLEAN :
        LET sender == Sender
            pref == user_caption_prefs[sender]
            custom_caption == IF pref # <<>> THEN pref[1] ELSE <<>>
            delete_words == get_user_data(cache, collection, sender, "delete_words", {}, d1)
            cache1 == get_user_data_cache(cache, collection, sender, "delete_words", {}, d1)
            replacements == get_user_data(cache1, collection, sender,
                                          "replacement_words", EmptyDict, d2)
            cache2 == get_user_data_cache(cache1, collection, sender,
                                          "replacement_words", EmptyDict, d2)
        IN
        /\ cache' = cache2
        /\ captions' = Append(captions,
              [by |-> "format_caption_with_custom",
               original |-> original_caption,
               custom_caption |-> custom_caption,
               delete_words |-> delete_words,
               replacements |-> replacements,
               result |-> formatted_caption(original_caption, custom_caption,
                                            delete_words, replacements)])
    /\ UNCHANGED <<transfer, user_chat_ids, disk, user_sessions, pending_photos,
                   user_rename_prefs, user_caption_prefs, collection, event, reply,
                   file_names, tasks>>

\* Preferences the settings handlers can have stored.
CaptionDocs ==
    {[NoDoc EXCEPT !["custom_caption"] = cc, !["delete_words"] = dw,
                   !["replacement_words"] = rw] :
        cc \in {<<>>, <<<<"b">>>>, <<<<>>>>},
        dw \in {<<>>, <<{<<"a">>}>>},
        rw \in {<<>>, <<SetItem(EmptyDict, <<"h">>, <<"c">>)>>}}

InitCaption ==
    /\ pc = "caption"
    /\ NoTransfer
    /\ user_chat_ids = [u \in Users |-> None]
    /\ disk = NoFiles
    /\ user_sessions = [u \in Users |-> None]
    /\ pending_photos = {}
    /\ user_rename_prefs = [u \in Users |-> <<>>]
    /\ user_caption_prefs \in [Users -> {<<>>, <<<<"p">>>>}]
    /\ collection \in [Users -> CaptionDocs]
    /\ cache = [u \in Users |-> NoDoc]
    /\ event = Idle(0)
    /\ reply = Reply(None, None, FALSE)
    /\ file_names = <<>>
    /\ captions = <<>>
    /\ tasks = <<>>

NextCaption == process_user_caption \/ format_caption_with_custom

SpecCaption == InitCaption /\ [][NextCaption]_vars

----------------------------------------------------------------------------
(* Two messages of one user while a prompt is open.  gf dispatches every   *)
(* update to the handlers in a task of its own, and a coroutine gives way  *)
(* to the other tasks only at an await: user_input_handler runs from line  *)
(* 972 to its first respond in one step, and from the return of a respond  *)
(* to the next await or to its end in another.                             *)

Handlers == {1, 2}

\* The prompts whose handler awaits nothing before its respond.
InterleavedPrompts == SessionTypes \ {"addsession"}

\* Lines 972-1021 up to the first await of event.respond: the handler h
\* reads the session, writes the preference and is about to send notice.
uih_begin(h) ==
    /\ pc = "interleave"
    /\ tasks[h].pc = "start"
    /\ LET user_id == Sender
           session_type == user_sessions[user_id]
       IN
       IF session_type = None THEN
           /\ tasks' = [tasks EXCEPT ![h].pc = "done"]
           /\ UNCHANGED <<user_chat_ids, user_rename_prefs, user_caption_prefs,
                          collection, cache>>
       ELSE
           \E text \in TextsFor(session_type),
              d1 \in BOOLEAN, d2 \in BOOLEAN, d3 \in BOOLEAN :
              LET r == CASE session_type = "setchat" -> setchat(user_id, text, d1, TRUE, TRUE)
                         [] session_type = "setrename" -> setrename(user_id, text, d1, TRUE)
                         [] session_type = "setcaption" -> setcaption(user_id, text, d1, TRUE)
                         [] session_type = "setreplacement" ->
                                setreplacement(user_id, text, d1, d2, d3, TRUE)
                         [] session_type = "deleteword" -> deleteword(user_id, text, d1, d2, TRUE)
              IN
              /\ user_chat_ids' = r.chat
              /\ user_rename_prefs' = r.rename
              /\ user_caption_prefs' = r.caption
              /\ collection' = r.col
              /\ cache' = r.cache
              /\ tasks' = [tasks EXCEPT ![h] =
                              [pc |-> "respond", session_type |-> session_type,
                               text |-> text, notice |-> r.reply.text]]
    /\ UNCHANGED <<transfer, disk, user_sessions, pending_photos, event, reply,
                   file_names, captions>>

\* The return of the respond the handler h awaits, and what follows it
\* without another await: the except clause of lines 981-982 when the
\* respond of line 980 raised, else line 1023.
uih_respond(h) ==
    /\ pc = "interleave"
    /\ tasks[h].pc = "respond"
    /\ \E sent \in BOOLEAN :
          /\ reply' = Reply("user_input", tasks[h].notice, sent)
          /\ IF sent THEN
                 \* line 1023: del raises KeyError when the key is gone
                 IF user_sessions[Sender] = None
                 THEN /\ tasks' = [tasks EXCEPT ![h].pc = "KeyError"]
                      /\ UNCHANGED user_sessions
                 ELSE /\ tasks' = [tasks EXCEPT ![h].pc = "done"]
                      /\ user_sessions' = [user_sessions EXCEPT ![Sender] = None]
             ELSE
                 /\ tasks' = IF tasks[h].session_type = "setchat" /\ tasks[h].notice = "chat_set"
                             THEN [tasks EXCEPT ![h].notice = "invalid_chat"]
                             ELSE [tasks EXCEPT ![h].pc = "raised"]
                 /\ UNCHANGED user_sessions
    /\ UNCHANGED <<transfer, user_chat_ids, disk, pending_photos,
                   user_rename_prefs, user_caption_prefs, collection, cache,
                   event, file_names, captions>>

\* Lines 892-916 have stored the session of a prompt; two messages of the
\* user are dispatched.
InitInterleave ==
    /\ pc = "interleave"
    /\ NoTransfer
    /\ user_chat_ids = [u \in Users |-> None]
    /\ disk = NoFiles
    /\ user_sessions \in [Users -> InterleavedPrompts]
    /\ pending_photos = {}
    /\ user_rename_prefs = [u \in Users |-> <<>>]
    /\ user_caption_prefs = [u \in Users |-> <<>>]
    /\ collection \in [Users -> StoredDocs]
    /\ cache = [u \in Users |-> NoDoc]
    /\ event = Idle(0)
    /\ reply = Reply(None, None, FALSE)
    /\ file_names = <<>>
    /\ captions = <<>>
    /\ tasks = [h \in Handlers |->
                   [pc |-> "start", session_type |-> None, text |-> <<>>,
                    notice |-> None]]

NextInterleave == \E h \in Handlers : uih_begin(h) \/ uih_respond(h)

SpecInterleave == InitInterleave /\ [][NextInterleave]_vars

----------------------------------------------------------------------------
(* Two transfers running at the same time in one working directory.  A    *)
(* transfer gives way to the other one at its awaits: the download, the   *)
(* rename (asyncio.to_thread), the sends.  The file a transfer downloads  *)
(* holds <<t>>, so that the content tells whose file it is.               *)

Transfers == {1, 2}

\* get_media_info's filename of the two messages.
MediaNames == {<<"a", DOT, "p">>, <<"t", "a", DOT, "p">>}

\* Line 279 for part 0: stem, ".part000", suffix, in the working directory.
part_name(path) ==
    PathStem(path) \o <<DOT, "p", "a", "r", "t", "0", "0", "0">>
    \o (IF SuffixDot(path) = 0 THEN <<>> ELSE <<DOT>> \o PathExtension(path))

\* os.path.exists of a local of a task: <<>> is None, <<name>> a path.
on_disk(p) == p # <<>> /\ p[1] \in DOMAIN disk

\* Line 520: download_media writes the media to the path it is given and
\* returns it, or raises.
tr_download(t) ==
    /\ pc = "two"
    /\ tasks[t].pc = "start"
    /\ \E ok \in BOOLEAN :
          IF ok
          THEN /\ disk' = Put(disk, tasks[t].filename, <<t>>)
               /\ tasks' = [tasks EXCEPT ![t].pc = "rename",
                                         ![t].file_path = <<tasks[t].filename>>]
          ELSE /\ tasks' = [tasks EXCEPT ![t].pc = "finally"]
               /\ UNCHANGED disk
    /\ UNCHANGED <<transfer, settings_but_tasks>>

\* Lines 523-524 with process_filename (237-258); dbok: the reads of the
\* collection return.
tr_rename(t) ==
    /\ pc = "two"
    /\ tasks[t].pc = "rename"
    /\ \E dbok \in BOOLEAN, posix \in BOOLEAN :
        LET user_id == Sender
            path == tasks[t].file_path[1]
            delete_words == get_user_data(cache, collection, user_id, "delete_words", {}, dbok)
            cache1 == get_user_data_cache(cache, collection, user_id, "delete_words", {}, dbok)
            replacements == get_user_data(cache1, collection, user_id,
                                          "replacement_words", EmptyDict, dbok)
            cache2 == get_user_data_cache(cache1, collection, user_id,
                                          "replacement_words", EmptyDict, dbok)
            rename_tag == get_user_data(cache2, collection, user_id,
                                        "rename_tag", DefaultTag, dbok)
            cache3 == get_user_data_cache(cache2, collection, user_id,
                                          "rename_tag", DefaultTag, dbok)
            new_path == new_name(path, delete_words, replacements, rename_tag)
        IN
        /\ cache' = cache3
        /\ IF path \notin DOMAIN disk
              \/ (new_path \in DOMAIN disk /\ new_path # path /\ ~posix)
           THEN /\ tasks' = [tasks EXCEPT ![t].pc = "finally"]
                /\ UNCHANGED disk
           ELSE /\ disk' = Put(Del(disk, path), new_path, disk[path])
                /\ tasks' = [tasks EXCEPT
                                ![t].pc = IF tasks[t].big THEN "split" ELSE "upload",
                                ![t].file_path = <<new_path>>]
    /\ UNCHANGED <<transfer, user_chat_ids, user_sessions, pending_photos,
                   user_rename_prefs, user_caption_prefs, collection, event,
                   reply, file_names, captions>>

\* Lines 527 and 568: the send of the file to the target chat, which reads
\* the file and raises when it is not there.
tr_upload(t) ==
    /\ pc = "two"
    /\ tasks[t].pc = "upload"
    /\ \E ok \in BOOLEAN :
          tasks' = [tasks EXCEPT
                       ![t].pc = "finally",
                       ![t].sent = IF ok /\ on_disk(tasks[t].file_path)
                                   THEN Append(@, disk[tasks[t].file_path[1]])
                                   ELSE @]
    /\ UNCHANGED <<transfer, disk, settings_but_tasks>>

\* Lines 260-281 for a file of one part: the part is written under its
\* name, unless the file is not there (lines 260-263).
tr_split(t) ==
    /\ pc = "two"
    /\ tasks[t].pc = "split"
    /\ IF on_disk(tasks[t].file_path)
       THEN LET part == part_name(tasks[t].file_path[1]) IN
            /\ disk' = Put(disk, part, disk[tasks[t].file_path[1]])
            /\ tasks' = [tasks EXCEPT ![t].pc = "part", ![t].part_file = <<part>>]
       ELSE /\ tasks' = [tasks EXCEPT ![t].pc = "finally"]
            /\ UNCHANGED disk
    /\ UNCHANGED <<transfer, settings_but_tasks>>

\* Lines 283-303: the part is sent and removed, and the file is removed.
tr_part(t) ==
    /\ pc = "two"
    /\ tasks[t].pc = "part"
    /\ \E ok \in BOOLEAN :
          tasks' = [tasks EXCEPT
                       ![t].pc = "finally",
                       ![t].sent = IF ok /\ on_disk(tasks[t].part_file)
                                   THEN Append(@, disk[tasks[t].part_file[1]])
                                   ELSE @]
    /\ disk' = LET d1 == IF on_disk(tasks[t].part_file)
                         THEN Del(disk, tasks[t].part_file[1]) ELSE disk
               IN  IF tasks[t].file_path[1] \in DOMAIN d1
                   THEN Del(d1, tasks[t].file_path[1]) ELSE d1
    /\ UNCHANGED <<transfer, settings_but_tasks>>

\* Lines 577-583.
tr_finally(t) ==
    /\ pc = "two"
    /\ tasks[t].pc = "finally"
    /\ disk' = IF on_disk(tasks[t].file_path)
               THEN Del(disk, tasks[t].file_path[1]) ELSE disk
    /\ tasks' = [tasks EXCEPT ![t].pc = "done"]
    /\ UNCHANGED <<transfer, settings_but_tasks>>

\* Two messages with media, of a size on either side of SIZE_LIMIT, have
\* been fetched for one user; the working directory is empty.
InitTwo ==
    /\ pc = "two"
    /\ NoTransfer
    /\ user_chat_ids = [u \in Users |-> None]
    /\ disk = NoFiles
    /\ user_sessions = [u \in Users |-> None]
    /\ pending_photos = {}
    /\ user_rename_prefs = [u \in Users |-> <<>>]
    /\ user_caption_prefs = [u \in Users |-> <<>>]
    /\ collection = [u \in Users |-> NoDoc]
    /\ cache = [u \in Users |-> NoDoc]
    /\ event = Idle(0)
    /\ reply = Reply(None, None, FALSE)
    /\ file_names = <<>>
    /\ captions = <<>>
    /\ \E names \in [Transfers -> MediaNames], sizes \in [Transfers -> BOOLEAN] :
          tasks = [t \in Transfers |->
                      [pc |-> "start", filename |-> names[t], big |-> sizes[t],
                       file_path |-> <<>>, part_file |-> <<>>, sent |-> <<>>]]

NextTwo ==
    \E t \in Transfers :
        \/ tr_download(t) \/ tr_rename(t) \/ tr_upload(t)
        \/ tr_split(t) \/ tr_part(t) \/ tr_finally(t)

SpecTwo == InitTwo /\ [][NextTwo]_vars

----------------------------------------------------------------------------
(* Properties                                                              *)

Calls(P(_)) == {i \in DOMAIN hist : P(hist[i])}

IsFetch(e) == e.op \in {"get_messages", "get_stories", "download_media"}
IsUpload(e) == e.op \in {"send_file", "pro_send_file", "fast_upload", "forward_messages"}
IsDelete(e) == e.op = "delete"

\* What the transfer tells the requesting user (not relayed content).
Notices == {"protected", "story_detected", "public_detected", "downloading",
            "uploading", "split_start", "file_not_found", "pro_unavailable",
            "4gb_starting", "access_denied", "story_downloading", "no_story",
            "story_uploading", "story_ok", "story_error", "alt_method", "not_found"}
IsNotice(e) == e.op \in {"send_message", "edit"} /\ e.to = Sender /\ e.what \in Notices
IsErrorNotice(e) == IsNotice(e) /\ e.what \in {"access_denied", "story_error"}
IsErrorLog(e) == e.to = LOG_GROUP /\ e.what \in {"error", "upload_failed", "4gb_error"}

Failed(e) == e.res # "ok"

\* The messages C2 names.
Interstitial == {"downloading", "uploading", "split_start", "uploading_part"}

Big == Truthy(file_size) /\ file_size[1] > SIZE_LIMIT

Ceil(a, b) == (a + b - 1) \div b

RECURSIVE Concat(_)
Concat(ss) == IF ss = <<>> THEN <<>> ELSE Head(ss) \o Concat(Tail(ss))

\* C1: when a private-link or public-link transfer has returned, no file
\* exists under the downloaded name or under the renamed name.
C1_NoTempFileAfterTransfer ==
    (pc = "done" /\ link.kind # "story")
        => (DlName \notin DOMAIN disk /\ RnName \notin DOMAIN disk)

\* C2: when a transfer in which no delete call failed has returned, none
\* of the interstitial messages it created exists.
C2_NoInterstitialMessageAfterTransfer ==
    (pc = "done" /\ Calls(LAMBDA e : IsDelete(e) /\ Failed(e)) = {})
        => live \cap Interstitial = {}

\* C3: when a story transfer whose download returned has ended, the story
\* file is not on disk.
C3_NoStoryFileAfterTransfer ==
    (pc = "done" /\ link.kind = "story"
        /\ Calls(LAMBDA e : e.op = "download_media" /\ ~Failed(e)) # {})
        => StoryName \notin DOMAIN disk

\* C4: a transfer from a protected source chat (well-formed link, no call
\* failing) makes no get_messages, get_stories or download_media call and
\* sends exactly one notice to the requesting user.
C4_ProtectedSourceNeverFetched ==
    (pc = "done" /\ SourceChat \in protectedDB /\ ~link.malformed
        /\ Calls(Failed) = {})
        => /\ Calls(IsFetch) = {}
           /\ Cardinality(Calls(IsNotice)) = 1

\* C5: a file that is not a photo goes to Direct Upload iff its size is at
\* most SIZE_LIMIT, to High-Capacity Upload iff it is larger, the user is
\* premium/owner and the privileged client is present, to Split Upload
\* otherwise.
C5_StrategyBySizeTierAndClient ==
    /\ strategy = "direct" => ~Big
    /\ strategy = "large" => Big /\ premium /\ pro_client
    /\ strategy = "split" => Big /\ ~(premium /\ pro_client)

\* C6 as stated: a premium user's oversized transfer without a privileged
\* client attempts no Direct or Split upload and has told the user that the
\* capability is unavailable when it ends.
C6_HardStopWithoutProClient ==
    (premium /\ ~pro_client /\ Big /\ strategy \notin {None, "photo"})
        => /\ strategy \notin {"direct", "split"}
           /\ pc = "done" =>
                Calls(LAMBDA e : e.what = "pro_unavailable" /\ ~Failed(e)) # {}

\* C6 as amended: without a privileged client handle_large_file_upload is
\* never entered and no capability-unavailable message is sent; an
\* oversized file that is not a photo is split, whatever the user's tier.
C6_SplitWithoutProClient ==
    ~pro_client =>
        /\ pc \notin {"large_start", "large_send", "large_end"}
        /\ Calls(LAMBDA e : e.what = "pro_unavailable") = {}
        /\ (Big /\ strategy \notin {None, "photo"}) => strategy = "split"

C6_Witness ==
    /\ premium /\ ~pro_client /\ Big
    /\ strategy = "split" /\ pc = "split_upload"

\* C7: split_large_file on a file of s bytes delivers parts of at most
\* PART_SIZE bytes, PART_SIZE < SIZE_LIMIT, and when it returns it has
\* written and delivered ceil(s / PART_SIZE) parts whose concatenation in
\* part order is the file.
C7_SplitPartsReassemble ==
    /\ PART_SIZE < SIZE_LIMIT
    /\ \A k \in DOMAIN parts : Len(parts[k]) <= PART_SIZE
    /\ (pc = "returned" /\ start_msg) =>
           /\ part_number = Ceil(ActualSize(msg), PART_SIZE)
           /\ Len(parts) = Ceil(ActualSize(msg), PART_SIZE)
           /\ Concat(parts) = Bytes(ActualSize(msg))

C7_Witness ==
    /\ pc = "returned" /\ start_msg
    /\ ActualSize(msg) = 2 * PART_SIZE /\ Len(parts) = 2

\* C8: no exception leaves handle_message_download, the transfer always
\* goes on until it returns, and it returns only after its finally block.
C8_NoExceptionEscapes ==
    /\ pc # "raised"
    /\ pc # "done" => ENABLED Next
    /\ pc = "done" => cleanup /\ exc = "none"

C8_Witness ==
    /\ pc = "done" /\ cleanup
    /\ Calls(LAMBDA e : e.what = "access_denied" /\ Failed(e)) # {}

\* C9: when a fetch or download call raised an RPCError, the transfer ends
\* with exactly one error notice sent to the user and makes no fetch,
\* download or upload after that call.
C9_OneNoticeAfterRpcError ==
    \A i \in Calls(LAMBDA e : IsFetch(e) /\ e.res = "rpc") :
        /\ pc = "done" => Cardinality(Calls(IsErrorNotice)) = 1
        /\ \A j \in DOMAIN hist :
               j > i => ~(IsFetch(hist[j]) \/ IsUpload(hist[j]))

\* C10: when a fetch or download raised an exception that is not an
\* RPCError, the transfer ends with the error sent to the log group.
C10_OtherErrorsReachTheLog ==
    (pc = "done" /\ Calls(LAMBDA e : IsFetch(e) /\ e.res = "other") # {})
        => Calls(IsErrorLog) # {}

\* The step is user_input_handler serving a user whose session has the
\* given type.
Serving(session_type) ==
    /\ event.stage = "user_input"
    /\ user_sessions[event.user] = session_type

\* What get_user_data would return for the field from a given cache and
\* collection when the database answers.
Field(c, col, u, key, default) == get_user_data(c, col, u, key, default, TRUE)

\* C11: no user is at the same time in user_sessions (a text prompt is
\* open) and in pending_photos (a thumbnail photo is awaited).
C11_AtMostOnePrompt ==
    \A u \in Users : ~(user_sessions[u] # None /\ u \in pending_photos)

\* C12: when user_input_handler has processed a message of a user with an
\* open text prompt, the user has no open text prompt, whatever the prompt
\* and whatever the outcome of the store write and of the reply.
C12_PromptClearedAfterOneMessage ==
    [][(event.stage = "user_input" /\ user_sessions[event.user] # None)
          => user_sessions'[event.user] = None]_vars

\* C13: a replacement rule whose OLD word is in the user's stored delete
\* words is answered with the delete-list error and leaves the stored and
\* the cached replacement_words and delete_words as they were (a cache
\* entry may at most be filled with the stored value).
C13_RuleOnDeletedWordIsRejected ==
    [][(/\ Serving("setreplacement")
        /\ re_match(event.text) # <<>>
        /\ collection[event.user]["delete_words"] # <<>>
        /\ re_match(event.text)[1] \in collection[event.user]["delete_words"][1])
          => /\ reply'.text = "in_delete_list"
             /\ collection' = collection
             /\ \A k \in {"delete_words", "replacement_words"} :
                   \/ cache'[event.user][k] = cache[event.user][k]
                   \/ /\ cache[event.user][k] = <<>>
                      /\ cache'[event.user][k] = collection[event.user][k]]_vars

\* C14: no word of a user is both a delete word and the key of a
\* replacement rule.
C14_NoWordBothDeletedAndReplaced ==
    \A u \in Users :
        Field(cache, collection, u, "delete_words", {})
            \cap DOMAIN Field(cache, collection, u, "replacement_words", EmptyDict) = {}

\* No quote inside a token.
Token(t) == t # <<>> /\ \A i \in 1..Len(t) : t[i] # Q

\* The whole text is 'OLD' 'NEW': two quoted tokens and one space between.
WellFormedRule(t) ==
    \E i \in 3..(Len(t) - 4) :
        /\ t[1] = Q /\ t[i] = Q /\ t[i + 1] = SP /\ t[i + 2] = Q /\ t[Len(t)] = Q
        /\ Token(SubSeq(t, 2, i - 1))
        /\ Token(SubSeq(t, i + 3, Len(t) - 1))

\* C15: the replacement-rule prompt answers a text that is not exactly
\* 'OLD' 'NEW' with the format error and leaves the collection unchanged,
\* and does not answer a text of that form with the format error.
C15_RuleGrammarIsExact ==
    [][Serving("setreplacement")
          => IF WellFormedRule(event.text)
             THEN reply'.text # "invalid_format"
             ELSE reply'.text = "invalid_format" /\ collection' = collection]_vars

\* The preference fields of a user document.
PreferenceKeys == {"rename_tag", "custom_caption", "delete_words",
                   "replacement_words", "upload_method"}

\* C16: a reset that reports success leaves every preference field of the
\* user absent from the collection and the cache, removes the thumbnail,
\* and leaves the user's target destination as it was.
C16_ResetClearsAllButDestination ==
    [][(event'.n = event.n + 1 /\ reply'.text = "reset_ok" /\ reply'.sent)
          => \A u \in Users :
                /\ \A k \in PreferenceKeys :
                      collection'[u][k] = <<>> /\ cache'[u][k] = <<>>
                /\ ThumbName(u) \notin DOMAIN disk'
                /\ user_chat_ids'[u] = user_chat_ids[u]]_vars

\* C17: when the user has set a target chat, a transfer of a private link
\* to an unprotected source, none of whose calls failed, fetches the
\* message.
C17_TransferAfterSetChatIsFetched ==
    (/\ pc = "done"
     /\ user_chat_ids[Sender] = TargetChat
     /\ link = [kind |-> "c", malformed |-> FALSE]
     /\ SourceChat \notin protectedDB
     /\ Calls(Failed) = {})
        => Calls(LAMBDA e : e.op = "get_messages") # {}

\* A call that delivers content to a chat other than the operator log.
IsDelivery(e) ==
    /\ e.to # LOG_GROUP
    /\ \/ e.op \in {"send_file", "pro_send_file", "forward_messages"}
       \/ e.op = "send_message" /\ e.what = "text"

IsMirror(e) ==
    /\ e.to = LOG_GROUP
    /\ \/ e.op \in {"send_file", "pro_send_file"}
       \/ e.op = "send_message" /\ e.what = "text"

\* C19: a transfer that chose an upload strategy and whose only failed
\* calls are sends to the operator log delivers to the target.
C19_LogFailureDoesNotStopDelivery ==
    (/\ pc = "done"
     /\ strategy \in {"photo", "direct", "split", "large"}
     /\ Calls(LAMBDA e : Failed(e) /\ ~(e.to = LOG_GROUP)) = {}
     /\ Calls(LAMBDA e : IsMirror(e) /\ Failed(e)) # {})
        => Calls(LAMBDA e : IsDelivery(e) /\ ~Failed(e)) # {}

EmptyCache == [u \in Users |-> NoDoc]

\* The name process_filename gives with the preferences of the sender as
\* the collection holds them.
StoredRename(name) ==
    new_name(name,
             Field(EmptyCache, collection, Sender, "delete_words", {}),
             Field(EmptyCache, collection, Sender, "replacement_words", EmptyDict),
             Field(EmptyCache, collection, Sender, "rename_tag", DefaultTag))

\* C20: when process_filename is applied with the stored preferences to a
\* name it returned with the same preferences, it returns that name.
C20_ProcessFilenameIdempotent ==
    \A i \in 1..(Len(file_names) - 2) :
        (/\ file_names[i + 1] = StoredRename(file_names[i])
         /\ file_names[i + 2] = StoredRename(file_names[i + 1]))
            => file_names[i + 2] = file_names[i + 1]

\* C21: process_user_caption trims the caption it got from the deletions
\* and replacements before it appends the custom caption: in a returned
\* caption that ends with the separator and the custom caption, the text
\* before the separator has no trailing whitespace; and the caption 'h a'
\* with the deleted word 'a' and the custom caption 'b' gives 'h\n\nb'.
C21_CaptionTrimmedBeforeCustom ==
    /\ processed_caption(<<<<"h", SP, "a">>>>, <<"b">>, {<<"a">>}, EmptyDict)
           = <<<<"h", NL, NL, "b">>>>
    /\ \A i \in DOMAIN captions :
          LET e == captions[i]
              r == e.result[1]
              k == Len(r) - Len(e.custom_caption)
              before == SubSeq(r, 1, k - 2)
          IN  (/\ e.by = "process_user_caption"
               /\ e.custom_caption # <<>> /\ e.result # <<>> /\ k > 0)
                  => /\ k > 2
                     /\ SubSeq(r, k - 1, k) = <<NL, NL>>
                     /\ before = RStrip(before)

\* C30: process_user_caption returns None whenever the caption is empty
\* once trimmed, with or without a custom caption.
C30_BlankCaptionIsNone ==
    \A i \in DOMAIN captions :
        (captions[i].by = "process_user_caption" /\ captions[i].result # <<>>)
            => Strip(captions[i].result[1]) # <<>>

\* The part files on disk, and the deliveries of parts to the target.
PartFiles == {n \in DOMAIN disk : n[2] >= 0}
PartUploads == Calls(LAMBDA e : e.op = "send_file" /\ e.to = upload_target)

\* C22: split_large_file delivers its parts in strictly ascending part
\* number, the k-th delivery being part k; at any time at most one part
\* file is on disk, the one of the current part number, so a part is
\* written only after the one before it was removed.
C22_PartsOneAtATimeInOrder ==
    /\ Cardinality(PartFiles) <= 1
    /\ \A n \in PartFiles : n = PartName(file_path, part_number)
    /\ \A i \in PartUploads : \A j \in PartUploads :
          i < j => hist[i].what[2] < hist[j].what[2]
    /\ \A i \in PartUploads :
          hist[i].what[2] = Cardinality({j \in PartUploads : j < i})

C22_Witness ==
    /\ pc = "split_upload" /\ part_number = 2
    /\ PartFiles = {PartName(file_path, 2)}
    /\ Cardinality(PartUploads) = 2

\* C23: when split_large_file has ended and nothing failed but the write
\* or the delivery of a part, no part of a higher number was written or
\* delivered, the parts delivered before are delivered, and neither a part
\* file nor the original file is on disk.
C23_FailedPartLeavesNoFile ==
    (/\ pc \in {"returned", "raised"}
     /\ start_msg
     /\ exc # "none"
     /\ Calls(LAMBDA e : Failed(e) /\ ~(e.op = "send_file" /\ e.to = upload_target)) = {})
        => /\ \A i \in PartUploads : hist[i].what[2] <= part_number
           /\ Len(parts) = part_number
           /\ PartFiles = {}
           /\ ~exists(file_path)

\* No call failed and the handler of handle_message_download reported no
\* exception.
NothingFailed ==
    /\ Calls(Failed) = {}
    /\ Calls(LAMBDA e : e.op = "send_message" /\ e.what \in {"error", "access_denied"}) = {}

\* The relay of a message as its text.
IsTextRelay(e) == e.op = "send_message" /\ e.what = "text"

CarriesFile(m) == \E k \in {"document", "video", "photo", "audio"} : Has(m, k)

\* C24: a fetched message that carries a document, a video, a photo or an
\* audio, with or without a caption, is never relayed as its text: the
\* transfer goes on to the download, and when it is done and no call
\* failed it has downloaded and delivered the file.
C24_MediaIsNeverRelayedAsText ==
    (msg # NoMsg /\ CarriesFile(msg) /\ ~Has(msg, "service") /\ ~Has(msg, "empty"))
        => /\ Calls(IsTextRelay) = {}
           /\ (pc = "done" /\ ctx = "private" /\ NothingFailed)
                 => /\ Calls(LAMBDA e : e.op = "download_media") # {}
                    /\ Calls(LAMBDA e : IsUpload(e) /\ e.to = target_chat_id) # {}

\* A sticker, a voice note or a video note, without text.
IsDirectKind(m) ==
    /\ \E k \in {"sticker", "voice", "video_note"} : Has(m, k)
    /\ ~CarriesFile(m)
    /\ ~Has(m, "message") /\ ~Has(m, "web_page")

\* C25: a sticker, voice note or video note fetched for a private link is
\* sent again by its remote media object; the transfer makes no download_media call and has
\* no local file, and when it is done and no call failed it has sent the
\* media object to the target.
C25_DirectKindsAreNotDownloaded ==
    (/\ ctx = "private"
     /\ msg # NoMsg /\ IsDirectKind(msg) /\ ~Has(msg, "service") /\ ~Has(msg, "empty"))
        => /\ Calls(LAMBDA e : e.op = "download_media") = {}
           /\ file_path = NoPath
           /\ (pc = "done" /\ NothingFailed)
                 => Calls(LAMBDA e : e.op = "send_file" /\ e.to = target_chat_id
                                       /\ e.what = "media") # {}

\* Notices that tell the user of a failure.
IsFailureNotice(e) ==
    IsNotice(e) /\ e.what \in {"access_denied", "story_error", "not_found", "no_story"}

\* The fetch returned, and what it returned is no message, an empty
\* message or a service message.
NothingFetched ==
    /\ Calls(LAMBDA e : e.op = "get_messages") # {}
    /\ Calls(LAMBDA e : e.op = "get_messages" /\ Failed(e)) = {}
    /\ (msg = NoMsg \/ Has(msg, "service") \/ Has(msg, "empty"))

\* C26: when the fetched message is missing, empty or a service message,
\* the transfer ends without a download, an upload or a failure notice,
\* and it has deleted the pending notice of its caller (the notice stays
\* only when that delete call itself failed).
C26_NothingFetchedEndsSilently ==
    (pc = "done" /\ NothingFetched)
        => /\ Calls(LAMBDA e : e.op = "download_media") = {}
           /\ Calls(IsUpload) = {}
           /\ Calls(IsFailureNotice) = {}
           /\ Calls(LAMBDA e : IsDelete(e) /\ e.what = "pending") # {}
           /\ "pending" \in live
                 => Calls(LAMBDA e : IsDelete(e) /\ e.what = "pending" /\ Failed(e)) # {}

\* The deliveries of a file to the target.
TargetUploads == Calls(LAMBDA e : IsUpload(e) /\ e.to = target_chat_id)

\* C27: a transfer whose media kind is photo takes the photo branch and
\* never the direct, Split or High-Capacity strategy: all it delivers to
\* the target is one send_file of the photo.
C27_PhotoIsOneDirectSend ==
    media_type = "photo" =>
        /\ strategy \in {None, "photo"}
        /\ \A i \in TargetUploads : hist[i].op = "send_file" /\ hist[i].what = "photo"
        /\ Cardinality(TargetUploads) <= 1
        /\ (pc = "done" /\ strategy = "photo" /\ Calls(Failed) = {})
              => Cardinality(TargetUploads) = 1

C27_Witness ==
    /\ pc = "done" /\ ctx = "private"
    /\ media_type = "photo" /\ strategy = "photo"
    /\ Calls(LAMBDA e : e.op = "send_file" /\ e.to = target_chat_id
                          /\ e.what = "photo" /\ ~Failed(e)) # {}

\* The kinds get_media_info looks for, in its order.
KindOrder == <<"document", "video", "photo", "audio", "voice">>

\* C28: get_media_info returns the first kind of document, video, photo,
\* audio, voice that the message has; for a message with none of them it
\* returns the kind 'unknown' with size 1; the size it returns is never 0.
C28_FirstKindElseUnknown ==
    media_type # None =>
        LET found == {i \in DOMAIN KindOrder : Has(msg, KindOrder[i])}
        IN  /\ found # {} =>
                  media_type = KindOrder[CHOOSE i \in found : \A j \in found : i <= j]
            /\ found = {} => media_type = "unknown" /\ file_size = <<1>>
            /\ file_size # <<0>>

\* C29: process_filename gives 'clip.mkv' with the tag '[x]' the name
\* 'clip [x].mp4', and it does not rename a file to a name that another
\* file has: such a call leaves both files as they are.
C29_RenameOntoExistingFileFails ==
    [][/\ new_name(<<"c", "l", "i", "p", DOT, "m", "k", "v">>, {}, EmptyDict,
                   <<"[", "x", "]">>)
              = <<"c", "l", "i", "p", SP, "[", "x", "]", DOT, "m", "p", "4">>
       /\ (/\ pc = "rename"
           /\ file_names' # file_names
           /\ file_names'[Len(file_names')] \in DOMAIN disk
           /\ file_names'[Len(file_names')] # file_names[Len(file_names)])
              => disk' = disk]_vars

\* C31: when thumbnail_handler has processed a message of a user who is
\* in pending_photos, the user is no longer in pending_photos, whatever
\* the message was and whether or not the photo was saved; the thumbnail
\* file of the user is written only when the message was a photo.
C31_ThumbnailWaitAlwaysCleared ==
    [][(event.stage = "thumbnail" /\ event.user \in pending_photos)
          => /\ event.user \notin pending_photos'
             /\ ~event.photo => disk' = disk]_vars

\* The value the callers pass as default for a key is cached for it.
IsDefault(key, value) ==
    CASE key = "delete_words" -> value = {}
      [] key = "replacement_words" -> value = EmptyDict
      [] key = "upload_method" -> value = "SpyLib"
      [] key = "custom_caption" -> value = <<>>
      [] key = "rename_tag" -> value = DefaultTag
      [] OTHER -> FALSE

\* C35: every value the preference cache holds for a user and a key is
\* the value of that field in the collection, or the default of the key
\* when the collection has no such field.
C35_CacheAgreesWithStore ==
    \A u \in Users : \A k \in Keys :
        cache[u][k] # <<>> =>
            IF collection[u][k] # <<>>
            THEN cache[u][k] = collection[u][k]
            ELSE IsDefault(k, cache[u][k][1])

\* The field a prompt writes, and the confirmation it answers with.
PromptKey(session_type) ==
    CASE session_type = "setchat" -> "target_chat_id"
      [] session_type = "setrename" -> "rename_tag"
      [] session_type = "setcaption" -> "custom_caption"
      [] session_type = "setreplacement" -> "replacement_words"
      [] session_type = "deleteword" -> "delete_words"
      [] OTHER -> "session_string"

Confirmations == {"chat_set", "rename_set", "caption_set", "rule_saved", "words_added"}

\* C36: when user_input_handler answers a prompt with its confirmation,
\* the save_user_data call of the prompt has written the field: the
\* collection holds it, with the value the cache holds.
C36_ConfirmationOnlyAfterWrite ==
    [][(/\ event.stage = "user_input"
        /\ user_sessions[event.user] # None
        /\ reply'.handler = "user_input"
        /\ reply'.text \in Confirmations
        /\ reply'.sent)
          => LET key == PromptKey(user_sessions[event.user])
             IN  /\ collection'[event.user][key] # <<>>
                 /\ collection'[event.user][key] = cache'[event.user][key]]_vars

\* C37: every send of content to the operator log comes after a delivery
\* to the target that succeeded, in the same transfer.
C37_MirrorOnlyAfterDelivery ==
    \A j \in Calls(IsMirror) :
        \E i \in Calls(LAMBDA e : IsDelivery(e) /\ ~Failed(e)) : i < j

\* C32: when every call returns or raises, every transfer terminates:
\* handle_message_download has run its finally block and returned, the
\* loop of split_large_file having ended.
C32_TransferTerminates == <>(pc = "done" /\ cleanup)

C32_Witness ==
    /\ pc = "done" /\ cleanup
    /\ strategy = "split" /\ Len(parts) = 2

\* The text of a returned caption, None being no text.
CaptionText(result) == IF result = <<>> THEN <<>> ELSE result[1]

\* C38: for the same original caption, custom caption, delete words and
\* replacements, process_user_caption and _format_caption_with_custom
\* return the same caption.
C38_BothPathsSameCaption ==
    \A i \in DOMAIN captions : \A j \in DOMAIN captions :
        (/\ captions[i].by = "process_user_caption"
         /\ captions[j].by = "format_caption_with_custom"
         /\ captions[i].original = captions[j].original
         /\ captions[i].custom_caption = captions[j].custom_caption
         /\ captions[i].delete_words = captions[j].delete_words
         /\ captions[i].replacements = captions[j].replacements)
            => CaptionText(captions[i].result) = CaptionText(captions[j].result)

\* C39: a button press or a message of the sender leaves what the bot
\* holds for every other user as it was: the stored and the cached
\* preferences, the open prompt, the pending-photo flag, the target chat,
\* the in-memory rename tag and caption, and the thumbnail file.
C39_OtherUsersUntouched ==
    [][\A o \in Accounts \ Users :
          /\ collection'[o] = collection[o]
          /\ cache'[o] = cache[o]
          /\ user_sessions'[o] = user_sessions[o]
          /\ (o \in pending_photos') = (o \in pending_photos)
          /\ user_chat_ids'[o] = user_chat_ids[o]
          /\ user_rename_prefs'[o] = user_rename_prefs[o]
          /\ user_caption_prefs'[o] = user_caption_prefs[o]
          /\ (ThumbName(o) \in DOMAIN disk') = (ThumbName(o) \in DOMAIN disk)]_vars

C39_Witness ==
    /\ reply = Reply("callback", "reset_ok", TRUE)
    /\ cache[Sender] = NoDoc
    /\ cache[OtherUser] # NoDoc
    /\ collection[OtherUser] # NoDoc

\* C34: when two messages of one user are handled while one text prompt is
\* open, no handler raises at the line that clears the prompt, and once both
\* handlers have ended the prompt was consumed by exactly one of them.
Ended(h) == tasks[h].pc \in {"done", "KeyError"}
Consumed(h) == tasks[h].session_type # None
C34_PromptConsumedOnce ==
    /\ \A h \in Handlers : tasks[h].pc # "KeyError"
    /\ (\A h \in Handlers : Ended(h))
          => Cardinality({h \in Handlers : Consumed(h)}) = 1

\* C33: two transfers that are both under way never hold the same local
\* path (downloaded, renamed or part name), and the file of a transfer that
\* has not sent it yet is on the disk with the content that transfer
\* downloaded: no rename or cleanup of the other transfer replaced or
\* removed it.
UnderWay(t) == tasks[t].pc \notin {"start", "done"}
LocalPaths(t) ==
    {p \in {tasks[t].file_path, tasks[t].part_file} : p # <<>>}
AwaitsSend(t) == tasks[t].pc \in {"rename", "upload", "split"}
C33_TransfersShareNoLocalPath ==
    /\ \A t1 \in Transfers : \A t2 \in Transfers \ {t1} :
          UnderWay(t1) /\ UnderWay(t2) => LocalPaths(t1) \cap LocalPaths(t2) = {}
    /\ \A t \in Transfers :
          AwaitsSend(t) => /\ on_disk(tasks[t].file_path)
                           /\ disk[tasks[t].file_path[1]] = <<t>>

====
